--------------------------- MODULE BashToolProofs ---------------------------
(***************************************************************************)
(* For every pipe, every buffer and every set of background processes: the *)
(* report of tool_bash is what the command wrote, whole and in order, and  *)
(* no call leaves an end of the pipe open or its shell unreaped.           *)
(***************************************************************************)
EXTENDS BashTool, SequenceTheorems, WellFoundedInduction, TLAPS

(* Where the written bytes are: read by the tool, or still in the pipe.    *)
NothingGetsLost == output \o pipe = written

(* Which ends of the pipe the tool has open.                               *)
FdsByPlace ==
    /\ at \in {"out", "waiting"} => fds = {}
    /\ at \in {"piped", "forked"} => fds = {"read", "write"}
    /\ at = "reading" => fds = {"read"}

(* The shell as the tool goes on: it exists from fork on, is reaped last,  *)
(* and writes only while it runs.  Until fork nothing is written.          *)
ShellByPlace ==
    /\ at = "piped" => child = "none"
    /\ at \in {"forked", "reading", "waiting"} => child \in {"running", "zombie"}
    /\ at = "out" /\ ~interrupted => child \in {"none", "reaped"}
    /\ at \in {"piped", "forked", "reading"} => ~interrupted
    /\ "sh" \in writers => child = "running"
    /\ at = "piped" => writers = {} /\ pipe = <<>>

(* After the end of the file was read nobody writes, and what is reported  *)
(* is what was read.                                                       *)
ReadToTheEnd ==
    ~interrupted =>
        /\ at \in {"waiting", "out"} => pipe = <<>> /\ writers = {}
        /\ at = "out" /\ child = "reaped" => result = Report

(* Bytes go into the pipe one by one.                                      *)
OneAtATime == \A p \in Process : Len(writing[p]) <= 1

IInv == TypeOK /\ OneAtATime /\ NothingGetsLost /\ FdsByPlace /\ ShellByPlace /\ ReadToTheEnd
-----------------------------------------------------------------------------
(* A set of natural numbers has a least member.                            *)
LEMMA LeastNumber ==
  ASSUME NEW T \in SUBSET Nat, T # {}
  PROVE  \E n \in T : \A m \in T : n <= m
<1> DEFINE R == {ss \in Nat \X Nat : ss[1] < ss[2]}
<1>1. IsWellFoundedOn(R, Nat)
  BY NatLessThanWellFounded, Zenon DEF OpToRel
<1>2. PICK x \in T : \A y \in T : ~ (<<y, x>> \in R)
  BY <1>1, WFMin, Zenon
<1>3. x \in Nat /\ \A y \in T : y \in Nat
  OBVIOUS
<1>4. \A y \in T : x <= y
  <2> SUFFICES ASSUME NEW y \in T PROVE x <= y
    OBVIOUS
  <2>1. ~(<<y, x>> \in R)
    BY <1>2
  <2>2. ~(y < x)
    BY <1>3, <2>1
  <2> QED BY <1>3, <2>2
<1> QED BY <1>4

(* The C string in a buffer: the bytes before the first zero byte.         *)
LEMMA CStringProperties ==
  ASSUME NEW bytes \in Seq(Byte)
  PROVE  /\ CString(bytes) \in Seq(Byte)
         /\ \E n \in 0 .. Len(bytes) :
               /\ CString(bytes) = SubSeq(bytes, 1, n)
               /\ \A i \in 1 .. n : bytes[i] # NUL
               /\ n < Len(bytes) => bytes[n + 1] = NUL
<1> DEFINE N == Len(bytes)
<1> DEFINE Prefixes == {SubSeq(bytes, 1, n) : n \in 0 .. N}
<1> DEFINE P(s) == /\ \A i \in 1 .. Len(s) : s[i] # NUL
                   /\ s # bytes => bytes[Len(s) + 1] = NUL
<1>1. N \in Nat /\ \A i \in 1 .. N : bytes[i] \in Byte
  BY LenProperties, ElementOfSeq
<1>2. \A n \in 0 .. N : /\ SubSeq(bytes, 1, n) \in Seq(Byte)
                        /\ Len(SubSeq(bytes, 1, n)) = n
                        /\ \A i \in 1 .. n : SubSeq(bytes, 1, n)[i] = bytes[i]
  <2> SUFFICES ASSUME NEW n \in 0 .. N
               PROVE  /\ SubSeq(bytes, 1, n) \in Seq(Byte)
                      /\ Len(SubSeq(bytes, 1, n)) = n
                      /\ \A i \in 1 .. n : SubSeq(bytes, 1, n)[i] = bytes[i]
    OBVIOUS
  <2>1. n \in Int /\ 1 \in Int /\ \A i \in 1 .. n : bytes[i] \in Byte
    BY <1>1
  <2>2. /\ SubSeq(bytes, 1, n) \in Seq(Byte)
        /\ Len(SubSeq(bytes, 1, n)) = IF 1 <= n THEN n - 1 + 1 ELSE 0
        /\ \A i \in 1 .. n - 1 + 1 : SubSeq(bytes, 1, n)[i] = bytes[1 + i - 1]
    BY <2>1, SubSeqProperties
  <2>3. \A i \in 1 .. n : i \in 1 .. n - 1 + 1 /\ 1 + i - 1 = i
    OBVIOUS
  <2> QED BY <2>2, <2>3
<1>3. SubSeq(bytes, 1, N) = bytes
  BY SubSeqFull
<1>4. \E s \in Prefixes : P(s)
  <2> DEFINE Zeros == {n \in 0 .. N - 1 : bytes[n + 1] = NUL}
  <2>1. CASE Zeros = {}
    <3>1. \A i \in 1 .. N : i - 1 \in 0 .. N - 1 /\ (i - 1) + 1 = i
      BY <1>1
    <3>2. \A i \in 1 .. N : bytes[i] # NUL
      BY <2>1, <3>1
    <3>3. P(bytes) /\ N \in 0 .. N
      BY <3>2, <1>1
    <3> QED BY <3>3, <1>3
  <2>2. CASE Zeros # {}
    <3>1. Zeros \in SUBSET Nat
      BY <1>1
    <3>2. PICK n \in Zeros : \A m \in Zeros : n <= m
      BY <2>2, <3>1, LeastNumber
    <3>3. n \in 0 .. N /\ n \in 0 .. N - 1 /\ bytes[n + 1] = NUL
      BY <3>2, <1>1
    <3>4. \A i \in 1 .. n : i - 1 \in 0 .. N - 1 /\ (i - 1) + 1 = i /\ ~(n <= i - 1)
      BY <3>3, <1>1
    <3>5. \A i \in 1 .. n : bytes[i] # NUL
      BY <3>2, <3>4
    <3>6. P(SubSeq(bytes, 1, n))
      BY <1>2, <3>3, <3>5
    <3> QED BY <3>3, <3>6
  <2> QED BY <2>1, <2>2
<1>5. CString(bytes) \in Prefixes /\ P(CString(bytes))
  BY <1>4 DEF CString
<1>6. PICK n \in 0 .. N : CString(bytes) = SubSeq(bytes, 1, n)
  BY <1>5
<1>7. Len(CString(bytes)) = n /\ \A i \in 1 .. n : CString(bytes)[i] = bytes[i]
  BY <1>2, <1>6
<1>8. \A i \in 1 .. n : bytes[i] # NUL
  BY <1>5, <1>7
<1>9. n < N => bytes[n + 1] = NUL
  BY <1>1, <1>5, <1>7
<1> QED BY <1>2, <1>6, <1>8, <1>9

(* Without a zero byte it is the whole buffer.                             *)
LEMMA CStringOfText ==
  ASSUME NEW bytes \in Seq(Byte), \A i \in DOMAIN bytes : bytes[i] # NUL
  PROVE  CString(bytes) = bytes
<1>1. PICK n \in 0 .. Len(bytes) :
         CString(bytes) = SubSeq(bytes, 1, n) /\ (n < Len(bytes) => bytes[n + 1] = NUL)
  BY CStringProperties
<1>2. Len(bytes) \in Nat /\ DOMAIN bytes = 1 .. Len(bytes)
  BY LenProperties
<1>3. n = Len(bytes)
  <2>1. ~(n < Len(bytes))
    <3> SUFFICES ASSUME n < Len(bytes) PROVE FALSE
      OBVIOUS
    <3>1. n + 1 \in DOMAIN bytes
      BY <1>2
    <3> QED BY <1>1, <3>1
  <2>2. n \in 0 .. Len(bytes) /\ Len(bytes) \in Nat
    BY <1>1, <1>2, Zenon
  <2> QED BY <2>1, <2>2
<1> QED BY <1>1, <1>3, SubSeqFull

-----------------------------------------------------------------------------
LEMMA Sizes ==
  Capacity \in Nat \ {0} /\ BufSize \in Nat \ {0} /\ MaxBytes \in Nat /\ MaxCalls \in Nat
  BY SizeAssumption, BoundAssumption

(* A result that says why there is none is a result.                       *)
LEMMA NoOutputIsResult ==
  ASSUME NEW why \in {"none", "error"},
         result' = [ok |-> FALSE, text |-> <<>>, trailer |-> why]
  PROVE  /\ result'.ok \in BOOLEAN /\ result'.text \in Seq(Byte)
         /\ result'.trailer \in {"none", "no output", "error", "nonzero", "signal"}
<1>1. <<>> \in Seq(Byte)
  BY EmptySeq
<1> QED BY <1>1

LEMMA InitEstablishes == Init => IInv
<1> SUFFICES ASSUME Init PROVE IInv
  OBVIOUS
<1>1. <<>> \in Seq(Byte) /\ Len(<<>>) = 0 /\ <<>> \o <<>> = <<>>
  BY EmptySeq, ConcatEmptySeq
<1>2. TypeOK
  <2>1. NoResult.ok = FALSE /\ NoResult.text = <<>> /\ NoResult.trailer = "none"
    BY DEF NoResult
  <2>2. 0 \in 0 .. MaxCalls /\ Len(<<>>) <= Capacity
    BY <1>1, Sizes
  <2> QED BY <1>1, <2>1, <2>2 DEF Init, TypeOK
<1>3. OneAtATime /\ NothingGetsLost
  BY <1>1 DEF Init, OneAtATime, NothingGetsLost
<1>4. FdsByPlace /\ ShellByPlace /\ ReadToTheEnd
  BY DEF Init, FdsByPlace, ShellByPlace, ReadToTheEnd
<1> QED BY <1>2, <1>3, <1>4 DEF IInv

(* Neither reading nor writing: the bytes stay where they are.             *)
LEMMA BytesStay ==
  ASSUME IInv, UNCHANGED <<pipe, output, written>>,
         \A p \in Process : writing'[p] = writing[p] \/ writing'[p] = <<>>,
         writing' \in [Process -> Seq(Byte)]
  PROVE  OneAtATime' /\ NothingGetsLost'
<1>1. Len(<<>>) = 0
  OBVIOUS
<1>2. OneAtATime'
  BY <1>1 DEF IInv, OneAtATime
<1> QED BY <1>2 DEF IInv, NothingGetsLost

(* A call of tool_bash begins.                                             *)
LEMMA CalledPreserves == ASSUME IInv, PipeFails \/ PipeOpens PROVE IInv'
<1> USE DEF Called
<1>1. <<>> \in Seq(Byte) /\ Len(<<>>) = 0 /\ <<>> \o <<>> = <<>>
  BY EmptySeq, ConcatEmptySeq
<1>2. /\ at = "out" /\ calls < MaxCalls /\ calls' = calls + 1
      /\ writers' = {} /\ writing' = [p \in Process |-> <<>>]
      /\ child' = "none" /\ status' = "none" /\ pipe' = <<>> /\ output' = <<>>
      /\ written' = <<>> /\ interrupted' = FALSE
  BY DEF PipeFails, PipeOpens
<1>3. calls' \in 0 .. MaxCalls
  <2>1. calls \in 0 .. MaxCalls
    BY DEF IInv, TypeOK
  <2> QED BY <1>2, <2>1, Sizes
<1>4. OneAtATime' /\ NothingGetsLost'
  BY <1>1, <1>2 DEF OneAtATime, NothingGetsLost
<1>5. CASE PipeFails
  <2>1. at' = "out" /\ fds' = {} /\ result' = [ok |-> FALSE, text |-> <<>>, trailer |-> "error"]
    BY <1>2, <1>5 DEF PipeFails, Failed, IInv, FdsByPlace
  <2>2. TypeOK'
    <3>1. Len(pipe') <= Capacity
      BY <1>1, <1>2, Sizes
    <3> QED BY <1>1, <1>2, <1>3, <2>1, <3>1, NoOutputIsResult DEF TypeOK
  <2> QED
    BY <1>2, <1>4, <2>1, <2>2 DEF IInv, FdsByPlace, ShellByPlace, ReadToTheEnd
<1>6. CASE PipeOpens
  <2>1. /\ at' = "piped" /\ fds' = {"read", "write"}
        /\ result' = [ok |-> FALSE, text |-> <<>>, trailer |-> "none"]
    BY <1>6 DEF PipeOpens, NoResult
  <2>2. TypeOK'
    <3>1. Len(pipe') <= Capacity
      BY <1>1, <1>2, Sizes
    <3> QED BY <1>1, <1>2, <1>3, <2>1, <3>1, NoOutputIsResult DEF TypeOK
  <2> QED
    BY <1>2, <1>4, <2>1, <2>2 DEF IInv, FdsByPlace, ShellByPlace, ReadToTheEnd
<1> QED BY <1>5, <1>6

(* tool_bash goes on.                                                      *)
LEMMA ToolPreserves == ASSUME IInv, ToolStep PROVE IInv'
<1> USE DEF procs
<1>1. <<>> \in Seq(Byte)
  BY EmptySeq
<1>2. writing \in [Process -> Seq(Byte)]
  BY DEF IInv, TypeOK
<1>3. CASE ForkFails
  <2>1. OneAtATime' /\ NothingGetsLost'
    BY <1>2, <1>3, BytesStay DEF ForkFails
  <2>2. result' = [ok |-> FALSE, text |-> <<>>, trailer |-> "error"]
    BY <1>3 DEF ForkFails, Failed
  <2>3. TypeOK'
    BY <1>1, <1>3, <2>2, NoOutputIsResult DEF ForkFails, IInv, TypeOK
  <2>4. pipe = <<>>
    BY <1>3 DEF ForkFails, IInv, ShellByPlace
  <2>5. FdsByPlace' /\ ShellByPlace' /\ ReadToTheEnd'
    BY <1>3, <2>4 DEF ForkFails, IInv, FdsByPlace, ShellByPlace, ReadToTheEnd
  <2> QED BY <2>1, <2>3, <2>5 DEF IInv
<1>4. CASE Forks
  <2>1. OneAtATime' /\ NothingGetsLost'
    BY <1>2, <1>4, BytesStay DEF Forks
  <2>2. TypeOK'
    BY <1>4 DEF Forks, IInv, TypeOK, Process
  <2>3. FdsByPlace' /\ ShellByPlace' /\ ReadToTheEnd'
    BY <1>4 DEF Forks, IInv, FdsByPlace, ShellByPlace, ReadToTheEnd
  <2> QED BY <2>1, <2>2, <2>3 DEF IInv
<1>5. CASE ClosesWriteEnd \/ ReadsEnd \/ ReadFails
  <2>1. OneAtATime' /\ NothingGetsLost'
    BY <1>2, <1>5, BytesStay DEF ClosesWriteEnd, ReadsEnd, ReadFails
  <2>2. TypeOK'
    BY <1>5 DEF ClosesWriteEnd, ReadsEnd, ReadFails, IInv, TypeOK
  <2>3. FdsByPlace' /\ ShellByPlace' /\ ReadToTheEnd'
    BY <1>5 DEF ClosesWriteEnd, ReadsEnd, ReadFails, IInv, FdsByPlace, ShellByPlace, ReadToTheEnd
  <2> QED BY <2>1, <2>2, <2>3 DEF IInv
<1>6. CASE Reads
  <2>1. PICK n \in 1 .. BufSize : /\ n <= Len(pipe)
                                  /\ output' = output \o SubSeq(pipe, 1, n)
                                  /\ pipe' = SubSeq(pipe, n + 1, Len(pipe))
    BY <1>6 DEF Reads, Gathered
  <2>2. /\ pipe \in Seq(Byte) /\ output \in Seq(Byte) /\ Len(pipe) \in Nat /\ Len(pipe) <= Capacity
        /\ BufSize \in Nat /\ Capacity \in Nat
    BY SizeAssumption, LenProperties DEF IInv, TypeOK
  <2>3. n \in 1 .. Len(pipe) /\ n \in Nat
    BY <2>1, <2>2
  <2>4. /\ SubSeq(pipe, 1, n) \in Seq(Byte) /\ SubSeq(pipe, n + 1, Len(pipe)) \in Seq(Byte)
        /\ Len(SubSeq(pipe, n + 1, Len(pipe))) <= Capacity
    <3>1. \A i \in 1 .. Len(pipe) : pipe[i] \in Byte
      BY <2>2, ElementOfSeq
    <3>2. \A i \in 1 .. n : pipe[i] \in Byte
      BY <3>1, <2>3
    <3>3. SubSeq(pipe, 1, n) \in Seq(Byte)
      BY <3>2, <2>3, SubSeqProperties
    <3>4. \A i \in n + 1 .. Len(pipe) : pipe[i] \in Byte
      BY <3>1, <2>3
    <3>5. n + 1 \in Int /\ Len(pipe) \in Int
      BY <2>2, <2>3
    <3>6. /\ SubSeq(pipe, n + 1, Len(pipe)) \in Seq(Byte)
          /\ Len(SubSeq(pipe, n + 1, Len(pipe))) =
                IF n + 1 <= Len(pipe) THEN Len(pipe) - (n + 1) + 1 ELSE 0
      BY <3>4, <3>5, SubSeqProperties
    <3> QED BY <3>3, <3>6, <2>2, <2>3
  <2>5. SubSeq(pipe, 1, n) \o SubSeq(pipe, n + 1, Len(pipe)) = pipe
    <3>1. /\ 1 \in 1 .. Len(pipe) + 1 /\ n \in 1 - 1 .. Len(pipe) /\ Len(pipe) \in n .. Len(pipe)
      BY <2>2, <2>3
    <3> QED BY <2>2, <3>1, ConcatAdjacentSubSeq, SubSeqFull
  <2>6. NothingGetsLost'
    <3>1. output' \o pipe' = output \o (SubSeq(pipe, 1, n) \o SubSeq(pipe, n + 1, Len(pipe)))
      <4> DEFINE first == SubSeq(pipe, 1, n)
      <4> DEFINE rest == SubSeq(pipe, n + 1, Len(pipe))
      <4>1. output \in Seq(Byte) /\ first \in Seq(Byte) /\ rest \in Seq(Byte)
        BY <2>2, <2>4
      <4>2. (output \o first) \o rest = output \o (first \o rest)
        <5> HIDE DEF first, rest
        <5> QED BY <4>1, ConcatAssociative
      <4> QED BY <2>1, <4>2, Zenon
    <3> QED BY <1>6, <2>5, <3>1 DEF Reads, IInv, NothingGetsLost
  <2>7. OneAtATime'
    BY <1>6 DEF Reads, IInv, OneAtATime
  <2>8. output' \in Seq(Byte) /\ pipe' \in Seq(Byte) /\ Len(pipe') <= Capacity
    BY <2>1, <2>2, <2>4, ConcatProperties
  <2>9. TypeOK'
    BY <1>6, <2>8 DEF Reads, IInv, TypeOK
  <2>10. FdsByPlace' /\ ShellByPlace' /\ ReadToTheEnd'
    BY <1>6 DEF Reads, IInv, FdsByPlace, ShellByPlace, ReadToTheEnd
  <2> QED BY <2>6, <2>7, <2>9, <2>10 DEF IInv
<1>7. CASE Reaps
  <2>1. OneAtATime' /\ NothingGetsLost'
    BY <1>2, <1>7, BytesStay DEF Reaps
  <2>2. result' = Report /\ Report' = Report /\ child = "zombie"
    BY <1>7 DEF Reaps, Report
  <2>3. /\ Report.ok \in BOOLEAN /\ Report.text \in Seq(Byte)
        /\ Report.trailer \in {"none", "no output", "error", "nonzero", "signal"}
    <3>1. CString(output) \in Seq(Byte)
      BY CStringProperties DEF IInv, TypeOK
    <3>2. status \in {"none", "zero", "nonzero", "signal"}
      BY DEF IInv, TypeOK
    <3> QED BY <3>1, <3>2 DEF Report
  <2>4. TypeOK'
    BY <1>7, <2>2, <2>3 DEF Reaps, IInv, TypeOK
  <2>5. FdsByPlace' /\ ShellByPlace'
    BY <1>7 DEF Reaps, IInv, FdsByPlace, ShellByPlace
  <2>6. ReadToTheEnd'
    BY <1>7, <2>2 DEF Reaps, IInv, ReadToTheEnd
  <2> QED BY <2>1, <2>4, <2>5, <2>6 DEF IInv
<1>8. CASE WaitFails
  <2>1. OneAtATime' /\ NothingGetsLost'
    BY <1>2, <1>8, BytesStay DEF WaitFails
  <2>2. result' = [ok |-> FALSE, text |-> <<>>, trailer |-> "error"]
    BY <1>8 DEF WaitFails, Failed
  <2>3. TypeOK'
    BY <1>1, <1>8, <2>2, NoOutputIsResult DEF WaitFails, IInv, TypeOK
  <2>4. FdsByPlace' /\ ShellByPlace' /\ ReadToTheEnd'
    BY <1>8 DEF WaitFails, IInv, FdsByPlace, ShellByPlace, ReadToTheEnd
  <2> QED BY <2>1, <2>3, <2>4 DEF IInv
<1> QED BY <1>3, <1>4, <1>5, <1>6, <1>7, <1>8 DEF ToolStep

-----------------------------------------------------------------------------
(* A process ends: of itself, by a signal, or because the pipe broke.      *)
LEMMA EndsPreserves ==
  ASSUME IInv, NEW p \in Process, NEW how \in {"zero", "nonzero", "signal"}, Ends(p, how),
         p \in writers \/ (p = "sh" /\ child = "running")
  PROVE  IInv'
<1> USE DEF tool
<1>1. /\ writers' = writers \ {p} /\ writing' = [writing EXCEPT ![p] = <<>>]
      /\ p = "sh" => child' = "zombie" /\ status' = how
      /\ p # "sh" => UNCHANGED <<child, status>>
      /\ UNCHANGED <<at, calls, fds, output, result, pipe, written, interrupted>>
  BY DEF Ends
<1>2. /\ writing' \in [Process -> Seq(Byte)]
      /\ \A q \in Process : writing'[q] = writing[q] \/ writing'[q] = <<>>
  BY <1>1, EmptySeq DEF IInv, TypeOK
<1>3. OneAtATime' /\ NothingGetsLost'
  BY <1>1, <1>2, BytesStay
<1>4. TypeOK'
  BY <1>1, <1>2 DEF IInv, TypeOK
<1>5. FdsByPlace'
  BY <1>1 DEF IInv, FdsByPlace
<1>6. at # "piped" /\ ~(at = "out" /\ ~interrupted)
  BY DEF IInv, ShellByPlace, ReadToTheEnd
<1>7. ShellByPlace'
  BY <1>1, <1>6 DEF IInv, ShellByPlace
<1>8. ReadToTheEnd'
  BY <1>1, <1>6 DEF IInv, ReadToTheEnd
<1> QED BY <1>3, <1>4, <1>5, <1>7, <1>8 DEF IInv

(* What a process with the pipe open does besides.                         *)
LEMMA ProcessPreserves == ASSUME IInv, NEW p \in Process, ProcessStep(p) PROVE IInv'
<1> USE DEF tool
<1>1. p \in writers
  BY DEF ProcessStep, Free, BeginsWrite, Writes, Exits, Breaks, Killed, Redirects, Leaves
<1>2. at # "piped" /\ ~(at \in {"waiting", "out"} /\ ~interrupted)
  BY <1>1 DEF IInv, ShellByPlace, ReadToTheEnd
<1>3. CASE Exits(p) \/ Breaks(p) \/ Killed(p)
  BY <1>1, <1>3, EndsPreserves DEF Exits, Breaks, Killed
<1>4. CASE Redirects(p) \/ \E h \in Helpers : Leaves(p, h)
  <2>1. /\ writers' \subseteq writers \cup Helpers /\ "sh" \notin Helpers
        /\ UNCHANGED <<at, calls, fds, output, result, writing, child, status, pipe, written,
                       interrupted>>
    BY <1>4, BoundAssumption DEF Redirects, Leaves
  <2>2. writing \in [Process -> Seq(Byte)]
    BY DEF IInv, TypeOK
  <2>3. OneAtATime' /\ NothingGetsLost'
    BY <2>1, <2>2, BytesStay
  <2>4. TypeOK'
    BY <2>1 DEF IInv, TypeOK, Process
  <2>5. FdsByPlace' /\ ShellByPlace' /\ ReadToTheEnd'
    BY <1>2, <2>1 DEF IInv, FdsByPlace, ShellByPlace, ReadToTheEnd
  <2> QED BY <2>3, <2>4, <2>5 DEF IInv
<1>5. CASE BeginsWrite(p)
  <2>1. PICK b \in Byte : writing' = [writing EXCEPT ![p] = <<b>>]
    BY <1>5 DEF BeginsWrite
  <2>2. UNCHANGED <<at, calls, fds, output, result, writers, child, status, pipe, written,
                    interrupted>>
    BY <1>5 DEF BeginsWrite
  <2>3. <<b>> \in Seq(Byte) /\ Len(<<b>>) = 1
    BY <2>1
  <2>4. OneAtATime'
    <3>1. \A q \in Process : writing'[q] = writing[q] \/ writing'[q] = <<b>>
      BY <2>1 DEF IInv, TypeOK
    <3>2. \A q \in Process : Len(writing[q]) <= 1
      BY DEF IInv, OneAtATime
    <3>3. Len(<<b>>) <= 1
      BY <2>3
    <3>4. \A q \in Process : Len(writing'[q]) <= 1
      BY <3>1, <3>2, <3>3, Zenon
    <3> QED BY <3>4 DEF OneAtATime
  <2>5. TypeOK'
    BY <2>1, <2>2, <2>3 DEF IInv, TypeOK
  <2>6. NothingGetsLost' /\ FdsByPlace' /\ ShellByPlace' /\ ReadToTheEnd'
    BY <1>2, <2>2 DEF IInv, NothingGetsLost, FdsByPlace, ShellByPlace, ReadToTheEnd
  <2> QED BY <2>4, <2>5, <2>6 DEF IInv
<1>6. CASE Writes(p)
  <2> DEFINE bytes == writing[p]
  <2>1. /\ Len(pipe) < Capacity /\ pipe' = pipe \o bytes /\ written' = written \o bytes
        /\ writing' = [writing EXCEPT ![p] = <<>>]
        /\ UNCHANGED <<at, calls, fds, output, result, writers, child, status, interrupted>>
    BY <1>6 DEF Writes
  <2>2. bytes \in Seq(Byte) /\ Len(bytes) <= 1 /\ Len(bytes) \in Nat
    BY LenProperties DEF IInv, TypeOK, OneAtATime
  <2>3. output \in Seq(Byte) /\ pipe \in Seq(Byte) /\ written \in Seq(Byte) /\ Len(pipe) \in Nat
    BY LenProperties DEF IInv, TypeOK
  <2>4. /\ pipe' \in Seq(Byte) /\ written' \in Seq(Byte)
        /\ Len(pipe') = Len(pipe) + Len(bytes)
    <3> HIDE DEF bytes
    <3> QED BY <2>1, <2>2, <2>3, ConcatProperties
  <2>5. NothingGetsLost'
    <3>1. (output \o pipe) \o bytes = output \o (pipe \o bytes)
      <4> HIDE DEF bytes
      <4> QED BY <2>2, <2>3, ConcatAssociative
    <3>2. output \o pipe = written
      BY DEF IInv, NothingGetsLost
    <3> QED BY <2>1, <3>1, <3>2, Zenon DEF NothingGetsLost
  <2>6. writing' \in [Process -> Seq(Byte)] /\ OneAtATime'
    <3>1. \A q \in Process : writing'[q] = writing[q] \/ writing'[q] = <<>>
      BY <2>1 DEF IInv, TypeOK
    <3>2. OneAtATime'
      BY <3>1, Len(<<>>) = 0 DEF IInv, OneAtATime
    <3>3. writing' \in [Process -> Seq(Byte)]
      BY <2>1, EmptySeq DEF IInv, TypeOK
    <3> QED BY <3>2, <3>3
  <2>7. TypeOK'
    <3>1. Len(pipe') <= Capacity
      BY <2>1, <2>2, <2>3, <2>4, Sizes
    <3> QED BY <2>1, <2>4, <2>6, <3>1 DEF IInv, TypeOK
  <2>8. FdsByPlace' /\ ShellByPlace' /\ ReadToTheEnd'
    BY <1>2, <2>1 DEF IInv, FdsByPlace, ShellByPlace, ReadToTheEnd
  <2> QED BY <2>5, <2>6, <2>7, <2>8 DEF IInv
<1> QED BY <1>3, <1>4, <1>5, <1>6 DEF ProcessStep

LEMMA NextPreserves == IInv /\ [Next]_vars => IInv'
<1> SUFFICES ASSUME IInv, [Next]_vars PROVE IInv'
  OBVIOUS
<1>1. CASE SilentShellEnds
  BY <1>1, EndsPreserves DEF SilentShellEnds, Process
<1>2. CASE UNCHANGED vars
  <2>1. Report' = Report
    BY <1>2 DEF vars, tool, procs, Report
  <2>2. TypeOK'
    BY <1>2 DEF vars, tool, procs, IInv, TypeOK
  <2>3. OneAtATime' /\ NothingGetsLost' /\ FdsByPlace' /\ ShellByPlace'
    BY <1>2 DEF vars, tool, procs, IInv, OneAtATime, NothingGetsLost, FdsByPlace, ShellByPlace
  <2>4. ReadToTheEnd'
    BY <1>2, <2>1 DEF vars, tool, procs, IInv, ReadToTheEnd
  <2> QED BY <2>2, <2>3, <2>4 DEF IInv
<1> QED BY <1>1, <1>2, CalledPreserves, ToolPreserves, ProcessPreserves DEF Next, Terminated

LEMMA InvariantHolds == Spec => []IInv
  BY InitEstablishes, NextPreserves, PTL DEF Spec
-----------------------------------------------------------------------------
(* What the tool reports is all that was written, in order, with nobody    *)
(* left to add to it, and success exactly if the shell exited with 0       *)
(* (tool_bash, from the end of the pipe to the return).                    *)
THEOREM ReportsFaithfully == Spec => []ReportIsFaithful
<1>1. IInv => ReportIsFaithful
  <2> SUFFICES ASSUME IInv, at = "out", child = "reaped", ~interrupted
               PROVE  /\ output = written /\ writers = {}
                      /\ (\A i \in DOMAIN written : written[i] # NUL) => result.text = written
                      /\ result.ok <=> status = "zero"
    BY DEF ReportIsFaithful
  <2>1. pipe = <<>> /\ writers = {} /\ result = Report
    BY DEF IInv, ReadToTheEnd
  <2>2. output = written
    BY <2>1, ConcatEmptySeq DEF IInv, NothingGetsLost, TypeOK
  <2>3. result.text = CString(output) /\ (result.ok <=> status = "zero")
    BY <2>1 DEF Report
  <2>4. (\A i \in DOMAIN written : written[i] # NUL) => CString(written) = written
    BY CStringOfText DEF IInv, TypeOK
  <2> QED BY <2>1, <2>2, <2>3, <2>4
<1> QED BY <1>1, InvariantHolds, PTL

(* After every call neither end of the pipe is open and, unless read or    *)
(* waitpid failed, the shell has been reaped.                              *)
THEOREM LeavesNothing == Spec => []NothingLeft
<1>1. IInv => NothingLeft
  BY DEF IInv, FdsByPlace, ShellByPlace, NothingLeft
<1> QED BY <1>1, InvariantHolds, PTL
=============================================================================
