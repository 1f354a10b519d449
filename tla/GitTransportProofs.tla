------------------------- MODULE GitTransportProofs -------------------------
(***************************************************************************)
(* GitTransport's invariants, for any hosts and anything a client may say. *)
(* The composition implements each of its parts; what is true of a part    *)
(* alone is proved of the part, the rest of the composition.               *)
(***************************************************************************)
EXTENDS GitTransport, SequenceTheorems, TLAPS

(* Nothing is read before it has arrived. *)
DataInv ==
  /\ input \in Seq(Http!Packets) /\ buf \in Seq(Http!Packets) /\ body \in Seq(Http!Packets)
  /\ arrived \in 0..Len(input) /\ taken \in 0..arrived
  /\ needsPackData \in BOOLEAN

(* The goroutine runs only during a conversation, after the refs. *)
PhaseInv ==
  /\ service \in {"none", "push", "pull", "ssh"}
  /\ pipe \in {"open", "closed"}
  /\ reader \in {"off", "scan", "write", "copy", "copyWrite", "close", "ended"}
  /\ Idle => reader = "off" /\ arrived = 0 /\ exec = "none"
  /\ exec = "infoRefs" => reader = "off" /\ ~Idle
  /\ reader = "off" => taken = 0 /\ body = <<>>

(* How much of the input the scanner has returned. *)
Returned == taken - Len(buf)

(* The scanner's buffer is the part of the input it has read and not       *)
(* returned; what was written is what it returned before, all of it as     *)
(* long as the request reads.                                              *)
ScanInv ==
  reader \in {"off", "scan", "write"} =>
    /\ Returned >= 0
    /\ \A i \in 1..Len(buf) : buf[i] = input[Returned + i]
    /\ \A i \in 1..Len(body) : body[i] = input[i]
    /\ reader # "write" => Len(body) <= Returned
    /\ reader # "write" /\ pipe = "open" => Len(body) = Returned
    /\ reader = "write" => Len(body) < Returned /\ line = input[Returned]
    /\ reader = "write" /\ pipe = "open" => Len(body) + 1 = Returned
    /\ needsPackData => Returned > 0

(* The body is the first n packets of the input and those that follow a    *)
(* gap, which only a push may have.                                        *)
Shape(n, gap) ==
  /\ n \in 0..Len(body) /\ gap \in 0..(Len(input) - Len(body))
  /\ gap > 0 => service = "push" /\ n > 0 /\ (body[n] = "flush" \/ input[n + 1] = "bad")
  /\ \A i \in 1..n : body[i] = input[i]
  /\ \A i \in (n + 1)..Len(body) : body[i] = input[i + gap]

(* What io.Copy reads from stdin follows what was written, and the gap. *)
CopyInv ==
  \E n \in 0..Len(body), gap \in 0..(Len(input) - Len(body)) :
    /\ Shape(n, gap)
    /\ reader = "copy" /\ pipe = "open" => Len(body) + gap = taken
    /\ reader = "copyWrite" => taken > 0 /\ line = input[taken]
    /\ reader = "copyWrite" /\ pipe = "open" => Len(body) + gap + 1 = taken

HttpInv == DataInv /\ PhaseInv /\ ScanInv /\ CopyInv

(* What the access check has granted, and by whom: the host that is asked  *)
(* for the repository.                                                     *)
Granted ==
  /\ argsOk /\ response \in Cmd!Responses /\ response.success
  /\ asked = Cmd!HostFor(cell)

(* A command that got past the access check was granted it; it has a       *)
(* transport from then on, and served is what the transport reported.      *)
CommandInv ==
  /\ pc \in {"args", "verify", "dispatch", "infoRefs", "move", "audit", "done"}
  /\ pc = "verify" => argsOk
  /\ pc \in {"dispatch", "infoRefs", "move", "audit"} \/ transport # "none" => Granted
  /\ transport \in {"none", "gitaly", "cells", "geo"}
  /\ pc \in {"args", "verify", "dispatch"} => transport = "none"
  /\ pc \in {"infoRefs", "move", "audit"} => transport # "none"
  /\ cell # "none" /\ command \in Cmd!PackCommands => transport \in {"none", "cells"}
  /\ pc = "audit" => transport = "gitaly" /\ response.needAudit /\ served
  /\ pc # "done" => err = "nil" /\ audit = "none"
  /\ audit # "none" => served /\ transport = "gitaly" /\ response.needAudit /\ audit = asked

(* Where the conversation is tells where the command is, and their results *)
(* agree.                                                                  *)
MeetInv ==
  /\ Idle <=> transport \in {"none", "gitaly"}
  /\ Idle => exec = "none"
  /\ pc = "infoRefs" /\ ~Idle => exec = "infoRefs"
  /\ pc = "move" /\ ~Idle => exec \in {"request", "copyOut"}
  /\ pc = "done" /\ ~Idle => exec = "returned"
  /\ pc = "done" /\ err = "nil" => served /\ (~Idle => httpErr = "nil")

IInv == HttpInv /\ CommandInv /\ MeetInv
-----------------------------------------------------------------------------
(* After a step: a body without a gap is a prefix of the input. *)
LEMMA PrefixCopyInv ==
  ASSUME DataInv', PhaseInv', reader' \in {"off", "scan", "write", "close", "ended"},
         Len(body') <= Len(input'), \A i \in 1..Len(body') : body'[i] = input'[i]
  PROVE  CopyInv'
  <1>1. Len(body') \in Nat /\ Len(input') \in Nat
    BY DEF DataInv
  <1>2. Shape(Len(body), 0)'
    BY <1>1 DEF Shape
  <1> QED BY <1>1, <1>2 DEF CopyInv

(* The conversation starts. *)
LEMMA StartInv ==
  ASSUME HttpInv, NEW svc \in {"push", "pull", "ssh"}, Http!Start(svc)
  PROVE  HttpInv'
  <1>1. /\ reader = "off" /\ arrived = 0 /\ taken = 0 /\ body = <<>>
        /\ Len(buf) = 0 /\ buf \in Seq(Http!Packets) /\ needsPackData = FALSE
    BY DEF HttpInv, DataInv, PhaseInv, ScanInv, Returned, Http!Start, Http!Idle, Idle
  <1>2. input' \in Seq(Http!Packets) /\ Len(input') \in Nat
    <2>1. input' \in Pushes \cup Pulls
      BY DEF Http!Start
    <2>2. input' \in Seq(Http!Packets)
      BY <2>1, ConversationAssumption
    <2> QED BY <2>2
  <1>3. /\ taken' = 0 /\ body' = <<>> /\ Len(buf') = 0 /\ buf' \in Seq(Http!Packets)
        /\ arrived' = 0 /\ needsPackData' = FALSE /\ pipe' = pipe
        /\ service' = svc /\ reader' \in {"copy", "off"}
        /\ exec' = "infoRefs" => reader' = "off"
    BY <1>1 DEF Http!Start, Http!scanVars
  <1>4. DataInv' /\ PhaseInv'
    <2>1. body' \in Seq(Http!Packets)
      BY <1>3
    <2>2. DataInv'
      <3>1. arrived' \in 0..Len(input') /\ taken' \in 0..arrived'
        BY <1>2, <1>3
      <3>2. needsPackData' \in BOOLEAN
        BY <1>3
      <3> QED BY <1>2, <1>3, <2>1, <3>1, <3>2 DEF DataInv
    <2>3. PhaseInv'
      BY <1>3 DEF HttpInv, PhaseInv, Idle, Http!Idle
    <2> QED BY <2>2, <2>3
  <1>5. ScanInv'
    BY <1>3 DEF ScanInv, Returned
  <1>6. CopyInv'
    <2>1. Shape(0, 0)'
      BY <1>2, <1>3 DEF Shape
    <2>2. 0 \in 0..Len(body') /\ 0 \in 0..(Len(input') - Len(body')) /\ Len(body') + 0 = taken'
      BY <1>2, <1>3
    <2> QED BY <1>3, <2>1, <2>2 DEF CopyInv
  <1> QED BY <1>4, <1>5, <1>6 DEF HttpInv

(* Steps of the client and of Execute: more may arrive, the request may be *)
(* over, the goroutine may start.                                          *)
LEMMA AsideInv ==
  ASSUME HttpInv,
         \/ Http!ClientSends \/ Http!StdinEnds
         \/ Http!InfoRefsCopied \/ Http!InfoRefsFails
         \/ Http!Answered \/ Http!Refused \/ Http!CopyOut \/ Http!TransportCloses
  PROVE  HttpInv'
  <1>1. /\ UNCHANGED <<service, input, taken, buf, line, needsPackData, body>>
        /\ reader' = reader \/ (reader = "off" /\ reader' = "scan" /\ ~Idle /\ exec' # "infoRefs")
        /\ pipe' = pipe \/ pipe' = "closed"
        /\ arrived' = arrived \/ (arrived' = arrived + 1 /\ arrived < Len(input) /\ ~Idle)
        /\ exec' = exec \/ (~Idle /\ exec' # "infoRefs")
    BY DEF HttpInv, DataInv, PhaseInv, Http!ClientSends, Http!StdinEnds, Http!InfoRefsCopied, Http!InfoRefsFails,
           Http!Answered, Http!Refused, Http!CopyOut, Http!TransportCloses,
           Http!clientVars, Http!scanVars, Http!execVars
  <1>2. DataInv' /\ PhaseInv'
    <2>1. DataInv'
      BY <1>1 DEF HttpInv, DataInv
    <2>2. PhaseInv'
      BY <1>1 DEF HttpInv, PhaseInv, Idle, Http!Idle
    <2> QED BY <2>1, <2>2
  <1>3. ScanInv'
    BY <1>1 DEF HttpInv, ScanInv, Returned
  <1>4. CopyInv'
    BY <1>1 DEF HttpInv, CopyInv, Shape
  <1> QED BY <1>2, <1>3, <1>4 DEF HttpInv

-----------------------------------------------------------------------------
(* bufio.Scanner reads stdin into its empty buffer. *)
LEMMA ScanReadInv ==
  ASSUME HttpInv, NEW k \in Nat, Http!ScanRead(k)
  PROVE  HttpInv'
  <1>1. /\ reader = "scan" /\ buf = <<>> /\ k \in 1..(arrived - taken) /\ taken' = taken + k
        /\ buf' = SubSeq(input, taken + 1, taken + k)
        /\ UNCHANGED <<service, input, arrived, line, needsPackData, reader, pipe, body, exec>>
    BY DEF Http!ScanRead, Http!clientVars, Http!execVars
  <1>2. /\ taken \in Nat /\ arrived \in Nat /\ Len(input) \in Nat /\ taken + k <= Len(input)
        /\ input \in Seq(Http!Packets)
    BY <1>1 DEF HttpInv, DataInv
  <1>3. /\ buf' \in Seq(Http!Packets) /\ Len(buf') = k
        /\ \A i \in 1..k : buf'[i] = input[taken + i]
    BY <1>1, <1>2
  <1>4. Returned = taken /\ Returned' = taken
    BY <1>1, <1>2, <1>3 DEF Returned
  <1>5. DataInv'
    BY <1>1, <1>2, <1>3 DEF HttpInv, DataInv
  <1>6. PhaseInv'
    BY <1>1 DEF HttpInv, PhaseInv, Idle, Http!Idle
  <1>7. ScanInv'
    BY <1>1, <1>2, <1>3, <1>4 DEF HttpInv, ScanInv
  <1>8. CopyInv'
    BY <1>1 DEF HttpInv, CopyInv, Shape
  <1> QED BY <1>5, <1>6, <1>7, <1>8 DEF HttpInv

(* pktLineSplitter returns the first packet of the buffer. *)
LEMMA ScanStepInv ==
  ASSUME HttpInv, Http!Scan
  PROVE  HttpInv'
  <1>1. /\ reader = "scan" /\ reader' = "write" /\ buf # <<>>
        /\ line' = Head(buf) /\ buf' = Tail(buf)
        /\ UNCHANGED <<service, input, arrived, taken, needsPackData, pipe, body, exec>>
    BY DEF Http!Scan, Http!clientVars, Http!execVars
  <1>2. /\ buf \in Seq(Http!Packets) /\ Len(buf) \in Nat \ {0} /\ taken \in Nat
        /\ Len(body) \in Nat
    BY <1>1 DEF HttpInv, DataInv
  <1>3. /\ buf' \in Seq(Http!Packets) /\ Len(buf') = Len(buf) - 1 /\ line' = buf[1]
        /\ \A i \in 1..(Len(buf) - 1) : buf'[i] = buf[i + 1]
    BY <1>1, <1>2
  <1>4. Returned' = Returned + 1 /\ Returned \in Nat
    BY <1>1, <1>2, <1>3 DEF HttpInv, ScanInv, Returned
  <1>5. DataInv'
    BY <1>1, <1>3 DEF HttpInv, DataInv
  <1>6. PhaseInv'
    BY <1>1 DEF HttpInv, PhaseInv, Idle, Http!Idle
  <1>7. ScanInv'
    BY <1>1, <1>2, <1>3, <1>4 DEF HttpInv, ScanInv
  <1>8. CopyInv'
    BY <1>1 DEF HttpInv, CopyInv, Shape
  <1> QED BY <1>5, <1>6, <1>7, <1>8 DEF HttpInv

(* After a step: the loop is over and what stdin still gives is to follow: without a gap *)
(* if nobody reads the pipe, otherwise behind what the scanner holds.      *)
LEMMA CopyStarts ==
  ASSUME DataInv', PhaseInv', reader' = "copy", service' = "push",
         Len(body') <= Len(input'), \A i \in 1..Len(body') : body'[i] = input'[i],
         pipe' = "open" =>
           /\ Len(body') + Len(buf') = taken'
           /\ Len(buf') > 0 =>
                Len(body') > 0 /\ (body'[Len(body')] = "flush" \/ input'[Len(body') + 1] = "bad")
  PROVE  CopyInv'
  <1>1. Len(body') \in Nat /\ Len(buf') \in Nat /\ Len(input') \in Nat /\ taken' \in 0..Len(input')
    BY DEF DataInv
  <1>2. CASE pipe' = "open"
    <2>1. Shape(Len(body), Len(buf))'
      BY <1>1, <1>2 DEF Shape
    <2> QED BY <1>1, <1>2, <2>1 DEF CopyInv, Shape
  <1>3. CASE pipe' # "open"
    <2>1. Shape(Len(body), 0)'
      BY <1>1 DEF Shape
    <2> QED BY <1>1, <1>3, <2>1 DEF CopyInv
  <1> QED BY <1>2, <1>3

(* Stdin has ended, or what is on it is no packet. *)
LEMMA ScanStopsInv ==
  ASSUME HttpInv, Http!ScanStops
  PROVE  HttpInv'
  <1>1. /\ reader = "scan" /\ reader' = Http!AfterScan
        /\ IF buf = <<>> THEN TRUE ELSE Head(buf) = "bad"
        /\ UNCHANGED <<service, input, arrived, taken, buf, line, needsPackData, pipe, body, exec>>
    BY DEF Http!ScanStops, Http!clientVars, Http!scanVars, Http!execVars
  <1>2. reader' \in {"copy", "close"} /\ (reader' = "copy" => service = "push" /\ needsPackData)
    BY <1>1 DEF Http!AfterScan
  <1>3. DataInv'
    BY <1>1 DEF HttpInv, DataInv
  <1>4. PhaseInv'
    BY <1>1, <1>2 DEF HttpInv, PhaseInv, Idle, Http!Idle
  <1>5. ScanInv'
    BY <1>2 DEF ScanInv
  <1>6. /\ Len(body) \in Nat /\ Len(buf) \in Nat /\ Len(input) \in Nat /\ taken \in 0..Len(input)
        /\ buf \in Seq(Http!Packets)
    BY DEF HttpInv, DataInv
  <1>7. /\ Len(body) <= Len(input) /\ \A i \in 1..Len(body) : body[i] = input[i]
        /\ pipe = "open" => Len(body) + Len(buf) = taken
    BY <1>1, <1>6 DEF HttpInv, ScanInv, Returned
  <1>8. CopyInv'
    <2>1. CASE reader' = "close"
      BY <1>1, <1>3, <1>4, <1>7, <2>1, PrefixCopyInv
    <2>2. CASE reader' = "copy"
      <3>1. ASSUME pipe = "open", Len(buf) > 0
            PROVE  Len(body) > 0 /\ input[Len(body) + 1] = "bad"
        <4>1. buf # <<>> /\ buf[1] = "bad"
          BY <1>1, <1>6, <3>1
        <4>2. Len(body) = Returned /\ Returned > 0 /\ buf[1] = input[Returned + 1]
          BY <1>1, <1>2, <1>6, <2>2, <3>1 DEF HttpInv, ScanInv
        <4> QED BY <4>1, <4>2
      <3> QED BY <1>1, <1>2, <1>3, <1>4, <1>7, <2>2, <3>1, CopyStarts
    <2> QED BY <1>2, <2>1, <2>2
  <1> QED BY <1>3, <1>4, <1>5, <1>8 DEF HttpInv

(* A packet of the scanner is written, or cannot be; the loop ends with it *)
(* or goes on.                                                             *)
LEMMA WriteInv ==
  ASSUME HttpInv, Http!Write \/ Http!WriteFails
  PROVE  HttpInv'
  <1>1. /\ reader = "write" /\ Http!LineWritten
        /\ UNCHANGED <<service, input, arrived, taken, buf, line, pipe, exec>>
        /\ \/ pipe = "open" /\ body' = Append(body, line)
           \/ pipe = "closed" /\ body' = body
    BY DEF Http!Write, Http!WriteFails, Http!clientVars, Http!execVars
  <1>2. /\ reader' \in {"scan", "copy", "close"}
        /\ reader' # "scan" => Http!EndsScan(line)
        /\ reader' = "copy" => service = "push"
        /\ needsPackData' \in BOOLEAN
    BY <1>1 DEF Http!LineWritten, Http!AfterScan, HttpInv, DataInv
  <1>3. /\ Len(body) \in Nat /\ Len(buf) \in Nat /\ Len(input) \in Nat /\ taken \in 0..Len(input)
        /\ body \in Seq(Http!Packets) /\ input \in Seq(Http!Packets)
    BY DEF HttpInv, DataInv
  <1>4. /\ Returned \in 1..Len(input) /\ Returned = taken - Len(buf) /\ Returned' = Returned
        /\ line = input[Returned] /\ line \in Http!Packets /\ Len(body) < Returned
        /\ pipe = "open" => Len(body) + 1 = Returned
        /\ \A i \in 1..Len(body) : body[i] = input[i]
    BY <1>1, <1>3 DEF HttpInv, ScanInv, Returned
  <1>5. /\ body' \in Seq(Http!Packets) /\ Len(body') \in Nat /\ Len(body') <= Returned
        /\ pipe = "open" => Len(body') = Returned
        /\ \A i \in 1..Len(body') : body'[i] = input[i]
    <2>1. CASE pipe = "open" /\ body' = Append(body, line)
      BY <1>3, <1>4, <2>1
    <2>2. CASE pipe = "closed" /\ body' = body
      BY <1>3, <1>4, <2>2
    <2> QED BY <1>1, <2>1, <2>2
  <1>6. DataInv'
    <2>1. arrived' \in 0..Len(input') /\ taken' \in 0..arrived' /\ input' \in Seq(Http!Packets)
          /\ buf' \in Seq(Http!Packets)
      BY <1>1 DEF HttpInv, DataInv
    <2> QED BY <1>2, <1>5, <2>1 DEF DataInv
  <1>7. PhaseInv'
    BY <1>1, <1>2 DEF HttpInv, PhaseInv, Idle, Http!Idle
  <1>8. ScanInv'
    <2> SUFFICES ASSUME reader' = "scan" PROVE ScanInv'
      BY <1>2 DEF ScanInv
    <2>1. \A i \in 1..Len(buf') : buf'[i] = input'[Returned' + i]
      BY <1>1, <1>4 DEF HttpInv, ScanInv
    <2> QED BY <1>1, <1>4, <1>5, <2>1 DEF ScanInv
  <1>9. CopyInv'
    <2>1. Len(body') <= Len(input') /\ \A i \in 1..Len(body') : body'[i] = input'[i]
      BY <1>1, <1>3, <1>4, <1>5
    <2>2. CASE reader' # "copy"
      BY <1>2, <1>6, <1>7, <2>1, <2>2, PrefixCopyInv
    <2>3. CASE reader' = "copy"
      <3>1. ASSUME pipe' = "open"
            PROVE  /\ Len(body') + Len(buf') = taken' /\ Len(body') > 0
                   /\ body'[Len(body')] = "flush"
        <4>1. Len(body') = Returned /\ body'[Returned] = line
          BY <1>1, <1>4, <1>5, <3>1
        <4>2. line = "flush"
          BY <1>2, <2>3 DEF Http!EndsScan, Http!IsFlush
        <4> QED BY <1>1, <1>3, <1>4, <4>1, <4>2
      <3> QED BY <1>1, <1>2, <1>6, <1>7, <2>1, <2>3, <3>1, CopyStarts
    <2> QED BY <2>2, <2>3
  <1> QED BY <1>6, <1>7, <1>8, <1>9 DEF HttpInv

(* io.Copy, and the end of the goroutine. *)
LEMMA CopyStepInv ==
  ASSUME HttpInv, Http!CopyRead \/ Http!CopyWrite \/ Http!CopyEnds \/ Http!ClosePipe
  PROVE  HttpInv'
  <1>1. /\ reader \in {"copy", "copyWrite", "close"}
        /\ reader' \in {"copy", "copyWrite", "close", "ended"}
        /\ UNCHANGED <<service, input, arrived, buf, needsPackData, pipe, exec>>
    BY DEF Http!CopyRead, Http!CopyWrite, Http!CopyEnds, Http!ClosePipe,
           Http!clientVars, Http!scanVars, Http!execVars
  <1>2. /\ Len(body) \in Nat /\ Len(input) \in Nat /\ arrived \in 0..Len(input)
        /\ taken \in 0..arrived
        /\ body \in Seq(Http!Packets) /\ input \in Seq(Http!Packets)
    BY DEF HttpInv, DataInv
  <1>3. PhaseInv'
    BY <1>1 DEF HttpInv, PhaseInv, Idle, Http!Idle
  <1>4. ScanInv'
    BY <1>1 DEF ScanInv
  <1>5. PICK n \in 0..Len(body), gap \in 0..(Len(input) - Len(body)) :
          /\ Shape(n, gap)
          /\ reader = "copy" /\ pipe = "open" => Len(body) + gap = taken
          /\ reader = "copyWrite" => taken > 0 /\ line = input[taken]
          /\ reader = "copyWrite" /\ pipe = "open" => Len(body) + gap + 1 = taken
    BY DEF HttpInv, CopyInv
  <1>6. CASE Http!CopyRead
    <2>1. /\ reader = "copy" /\ reader' = "copyWrite" /\ taken < arrived /\ taken' = taken + 1
          /\ line' = input[taken + 1] /\ body' = body
      BY <1>6 DEF Http!CopyRead
    <2>2. DataInv'
      BY <1>1, <1>2, <2>1 DEF HttpInv, DataInv
    <2>3. Shape(n, gap)'
      BY <1>1, <1>5, <2>1 DEF Shape
    <2>4. CopyInv'
      <3>1. n \in 0..Len(body') /\ gap \in 0..(Len(input') - Len(body'))
        BY <1>1, <2>1
      <3>2. taken' > 0 /\ line' = input'[taken'] /\ (pipe' = "open" => Len(body') + gap + 1 = taken')
        BY <1>1, <1>2, <1>5, <2>1
      <3> QED BY <2>1, <2>3, <3>1, <3>2 DEF CopyInv
    <2> QED BY <1>3, <1>4, <2>2, <2>4 DEF HttpInv
  <1>7. CASE Http!CopyWrite /\ pipe = "open"
    <2>1. /\ reader = "copyWrite" /\ reader' = "copy" /\ taken' = taken
          /\ body' = Append(body, line)
      BY <1>7 DEF Http!CopyWrite, Http!scanVars
    <2>2. /\ Len(body) + gap + 1 = taken /\ line = input[Len(body) + 1 + gap]
          /\ line \in Http!Packets
      BY <1>2, <1>5, <1>7, <2>1
    <2>3. /\ body' \in Seq(Http!Packets) /\ Len(body') = Len(body) + 1
          /\ body'[Len(body) + 1] = line
          /\ \A i \in 1..Len(body) : body'[i] = body[i]
      BY <1>2, <2>1, <2>2
    <2>4. DataInv'
      BY <1>1, <2>1, <2>3 DEF HttpInv, DataInv
    <2>5. Shape(n, gap)'
      <3>1. n \in 0..Len(body') /\ gap \in 0..(Len(input) - Len(body'))
        BY <1>2, <2>2, <2>3
      <3>2. gap > 0 => service = "push" /\ n > 0 /\ (body'[n] = "flush" \/ input[n + 1] = "bad")
        BY <1>2, <1>5, <2>3 DEF Shape
      <3>3. \A i \in 1..n : body'[i] = input[i]
        BY <1>2, <1>5, <2>3 DEF Shape
      <3>4. \A i \in (n + 1)..Len(body') : body'[i] = input[i + gap]
        <4> SUFFICES ASSUME NEW i \in (n + 1)..Len(body') PROVE body'[i] = input[i + gap]
          OBVIOUS
        <4>1. CASE i = Len(body) + 1
          BY <2>2, <2>3, <4>1
        <4>2. CASE i \in (n + 1)..Len(body)
          BY <1>2, <1>5, <2>3, <4>2 DEF Shape
        <4> QED BY <1>2, <2>3, <4>1, <4>2
      <3> QED BY <1>1, <3>1, <3>2, <3>3, <3>4 DEF Shape
    <2>6. CopyInv'
      <3>1. n \in 0..Len(body') /\ gap \in 0..(Len(input') - Len(body')) /\ Len(body') + gap = taken'
        BY <1>1, <1>2, <2>1, <2>2, <2>3
      <3> QED BY <2>1, <2>5, <3>1 DEF CopyInv
    <2> QED BY <1>3, <1>4, <2>4, <2>6 DEF HttpInv
  <1>8. CASE (Http!CopyWrite /\ pipe # "open") \/ Http!CopyEnds \/ Http!ClosePipe
    <2>1. UNCHANGED <<taken, line, body>> /\ reader' \in {"close", "ended"}
      BY <1>8 DEF Http!CopyWrite, Http!CopyEnds, Http!ClosePipe, Http!scanVars
    <2>2. DataInv'
      BY <1>1, <2>1 DEF HttpInv, DataInv
    <2>3. Shape(n, gap)'
      BY <1>1, <1>5, <2>1 DEF Shape
    <2>4. CopyInv'
      BY <1>1, <1>2, <1>5, <2>1, <2>3 DEF CopyInv
    <2> QED BY <1>3, <1>4, <2>2, <2>4 DEF HttpInv
  <1> QED BY <1>6, <1>7, <1>8

-----------------------------------------------------------------------------
(* The conversation alone: what was written and what is to be written are  *)
(* where they belong in the input.                                         *)
THEOREM HttpInvariance == Http!Spec => []HttpInv
  <1>1. Http!Init => HttpInv
    <2> SUFFICES ASSUME Http!Init PROVE HttpInv
      OBVIOUS
    <2>1. /\ input = <<>> /\ buf = <<>> /\ body = <<>> /\ arrived = 0 /\ taken = 0
          /\ reader = "off" /\ needsPackData = FALSE
      BY DEF Http!Init
    <2>2. DataInv
      <3>1. <<>> \in Seq(Http!Packets) /\ Len(input) = 0
        BY <2>1
      <3>2. arrived \in 0..Len(input) /\ taken \in 0..arrived
        BY <2>1, <3>1
      <3>3. needsPackData \in BOOLEAN
        BY <2>1
      <3> QED BY <2>1, <3>1, <3>2, <3>3 DEF DataInv
    <2>3. PhaseInv
      BY DEF Http!Init, PhaseInv, Idle, Http!Idle
    <2>4. ScanInv
      <3>1. Len(buf) = 0 /\ Len(body) = 0
        BY <2>1
      <3>2. taken = 0
        BY <2>1
      <3>3. Returned = 0
        BY <3>1, <3>2 DEF Returned
      <3> QED BY <2>1, <3>1, <3>3 DEF ScanInv
    <2>5. CopyInv
      <3>1. Shape(0, 0)
        BY <2>1 DEF Shape
      <3> QED BY <2>1, <3>1 DEF Http!Init, CopyInv
    <2> QED BY <2>2, <2>3, <2>4, <2>5 DEF HttpInv
  <1>2. HttpInv /\ [Http!Next]_(Http!vars) => HttpInv'
    <2> SUFFICES ASSUME HttpInv, [Http!Next]_(Http!vars) PROVE HttpInv'
      OBVIOUS
    <2>1. CASE UNCHANGED Http!vars
      BY <2>1 DEF Http!vars, Http!clientVars, Http!scanVars, Http!execVars, HttpInv, DataInv,
                  PhaseInv, Idle, Http!Idle, ScanInv, Returned, CopyInv, Shape
    <2>2. CASE \E svc \in {"push", "pull", "ssh"} : Http!Start(svc)
      BY <2>2, StartInv
    <2>3. CASE \/ Http!ClientSends \/ Http!ClientCloses \/ Http!ClientLeaves \/ Http!SessionCloses
               \/ Http!InfoRefsCopied \/ Http!InfoRefsFails \/ Http!Answered \/ Http!Refused
               \/ Http!CopyOut \/ Http!TransportCloses
      BY <2>3, AsideInv DEF Http!ClientCloses, Http!ClientLeaves, Http!SessionCloses
    <2>4. CASE Http!ReaderStep
      <3>1. 1..Len(input) \subseteq Nat
        BY DEF HttpInv, DataInv
      <3> QED BY <2>4, <3>1, ScanReadInv, ScanStepInv, ScanStopsInv, WriteInv, CopyStepInv
              DEF Http!ReaderStep
    <2> QED BY <2>1, <2>2, <2>3, <2>4 DEF Http!Next, Http!Finished
  <1> QED BY <1>1, <1>2, PTL DEF Http!Spec

(* A body of that shape is in order. *)
LEMMA ShapeIsOrder ==
  ASSUME HttpInv
  PROVE  Http!BodyInOrder
  <1>1. PICK n \in 0..Len(body), gap \in 0..(Len(input) - Len(body)) : Shape(n, gap)
    BY DEF HttpInv, CopyInv
  <1>2. /\ body \in Seq(Http!Packets) /\ input \in Seq(Http!Packets)
        /\ Len(body) \in Nat /\ Len(input) \in Nat /\ gap + Len(body) <= Len(input)
    BY DEF HttpInv, DataInv
  <1>3. PICK first, rest : /\ first = SubSeq(input, 1, n)
                           /\ rest = SubSeq(input, n + gap + 1, gap + Len(body))
    OBVIOUS
  <1>4. /\ first \in Seq(Http!Packets) /\ Len(first) = n
        /\ \A i \in 1..n : first[i] = input[i]
    BY <1>2, <1>3
  <1>5. /\ rest \in Seq(Http!Packets) /\ Len(rest) = Len(body) - n
        /\ \A i \in 1..(Len(body) - n) : rest[i] = input[n + gap + i]
    BY <1>2, <1>3
  <1>6. PICK whole : whole = first \o rest
    OBVIOUS
  <1>7. /\ whole \in Seq(Http!Packets) /\ Len(whole) = Len(body)
        /\ \A i \in 1..n : whole[i] = first[i]
        /\ \A i \in (n + 1)..Len(body) : whole[i] = rest[i - n]
    BY <1>2, <1>4, <1>5, <1>6
  <1>8. \A i \in 1..Len(body) : body[i] = whole[i]
    <2> SUFFICES ASSUME NEW i \in 1..Len(body) PROVE body[i] = whole[i]
      OBVIOUS
    <2>1. CASE i <= n
      BY <1>1, <1>2, <1>4, <1>7, <2>1 DEF Shape
    <2>2. CASE i > n
      <3>1. i - n \in 1..(Len(body) - n) /\ n + gap + (i - n) = i + gap
        BY <1>2, <2>2
      <3> QED BY <1>1, <1>2, <1>5, <1>7, <2>2, <3>1 DEF Shape
    <2> QED BY <1>2, <2>1, <2>2
  <1>9. body = whole
    BY <1>2, <1>7, <1>8, SeqEqual
  <1> QED BY <1>1, <1>3, <1>6, <1>9 DEF Http!BodyInOrder, Shape

-----------------------------------------------------------------------------
(* Composed with the command the conversation takes no step it does not    *)
(* take alone.                                                             *)
THEOREM ImplementsHttp == Spec => Http!Spec
  <1>1. Init => Http!Init
    BY DEF Init
  <1>2. [Next]_vars => [Http!Next]_(Http!vars)
    <2> SUFFICES ASSUME [Next]_vars PROVE [Http!Next]_(Http!vars)
      OBVIOUS
    <2>1. UNCHANGED httpVars => UNCHANGED Http!vars
      BY DEF httpVars, Http!vars, Http!clientVars, Http!scanVars, Http!execVars
    <2>2. CASE UNCHANGED vars
      BY <2>1, <2>2 DEF vars
    <2>3. CASE CmdStep
      BY <2>1, <2>3 DEF CmdStep
    <2>4. CASE Start
      <3>1. ServiceFor \in {"push", "pull", "ssh"}
        BY DEF ServiceFor
      <3> QED BY <2>1, <2>4, <3>1 DEF Start, Http!Next
    <2>5. CASE InfoRefs
      BY <2>5 DEF InfoRefs, Http!Next
    <2>6. CASE Returns
      BY <2>6 DEF Returns, Http!Next
    <2>7. CASE HttpStep
      BY <2>7 DEF HttpStep, Http!Next
    <2>8. CASE Finished
      BY <2>1, <2>8 DEF Finished, vars
    <2> QED BY <2>2, <2>3, <2>4, <2>5, <2>6, <2>7, <2>8 DEF Next
  <1> QED BY <1>1, <1>2, PTL DEF Spec, Http!Spec

(* Nor does the command, composed with the conversation. *)
THEOREM ImplementsCommand == Spec => Cmd!Spec
  <1>1. Init => Cmd!Init
    BY DEF Init
  <1>2. [Next]_vars => [Cmd!Next]_(Cmd!vars)
    <2> SUFFICES ASSUME [Next]_vars PROVE [Cmd!Next]_(Cmd!vars)
      OBVIOUS
    <2>1. UNCHANGED cmdVars => UNCHANGED Cmd!vars
      BY DEF cmdVars, Cmd!vars
    <2>2. CASE UNCHANGED vars
      BY <2>1, <2>2 DEF vars
    <2>3. CASE CmdStep
      BY <2>3 DEF CmdStep, Cmd!Next
    <2>4. CASE Start
      BY <2>4 DEF Start, Cmd!Next
    <2>5. CASE InfoRefs
      BY <2>5 DEF InfoRefs, Cmd!Next
    <2>6. CASE Returns
      BY <2>6 DEF Returns, Cmd!Next
    <2>7. CASE HttpStep
      BY <2>1, <2>7 DEF HttpStep
    <2>8. CASE Finished
      BY <2>1, <2>8 DEF Finished, vars
    <2> QED BY <2>2, <2>3, <2>4, <2>5, <2>6, <2>7, <2>8 DEF Next
  <1> QED BY <1>1, <1>2, PTL DEF Spec, Cmd!Spec

(* What the remote end receives is what the client sent, in order and      *)
(* without repetition, but for what the scanner of a push had read beyond  *)
(* its end.                                                                *)
THEOREM Ordered == Spec => []BodyInOrder
  <1>1. HttpInv => BodyInOrder
    BY ShapeIsOrder DEF BodyInOrder
  <1> QED BY <1>1, ImplementsHttp, HttpInvariance, PTL

-----------------------------------------------------------------------------
(* No error of Gitaly's is nil. *)
LEMMA GitalyErrorIsError ==
  \A e \in Cmd!GitalyErrors : Cmd!GitalyError(e) # "nil"
  BY DEF Cmd!GitalyErrors, Cmd!GitalyError

(* The command alone: access first, then a transport, then the audit. *)
THEOREM CommandInvariance == Cmd!Spec => []CommandInv
  <1>1. Cmd!Init => CommandInv
    BY DEF Cmd!Init, CommandInv
  <1>2. CommandInv /\ [Cmd!Next]_(Cmd!vars) => CommandInv'
    <2> SUFFICES ASSUME CommandInv, [Cmd!Next]_(Cmd!vars) PROVE CommandInv'
      OBVIOUS
    <2>1. CASE UNCHANGED Cmd!vars
      BY <2>1 DEF Cmd!vars, CommandInv, Granted, Cmd!Responses, Cmd!HostFor
    <2>2. CASE Cmd!CheckArgs
      BY <2>2 DEF Cmd!CheckArgs, Cmd!Return, Cmd!inputs, CommandInv
    <2>3. CASE Cmd!VerifyFails
      BY <2>3 DEF Cmd!VerifyFails, Cmd!Return, Cmd!inputs, CommandInv
    <2>4. ASSUME NEW r \in Cmd!Responses, Cmd!Verify(r) PROVE CommandInv'
      BY <2>4 DEF Cmd!Verify, Cmd!Return, Cmd!inputs, CommandInv, Granted, Cmd!Responses, Cmd!HostFor
    <2>5. CASE Cmd!StartCells
      BY <2>5 DEF Cmd!StartCells, Cmd!Return, Cmd!inputs, CommandInv, Granted, Cmd!Responses, Cmd!HostFor
    <2>6. CASE Cmd!StartGeo
      BY <2>6 DEF Cmd!StartGeo, Cmd!Route, Cmd!RoutePack, Cmd!IsCellRouted, Cmd!Return, Cmd!inputs,
                  CommandInv, Granted, Cmd!Responses, Cmd!HostFor
    <2>7. ASSUME NEW ok \in BOOLEAN, Cmd!InfoRefs(ok) PROVE CommandInv'
      BY <2>7 DEF Cmd!InfoRefs, Cmd!Return, Cmd!inputs, CommandInv, Granted, Cmd!Responses, Cmd!HostFor
    <2>8. ASSUME NEW ok \in BOOLEAN, Cmd!StartGitaly(ok) PROVE CommandInv'
      BY <2>8 DEF Cmd!StartGitaly, Cmd!Route, Cmd!RoutePack, Cmd!IsCellRouted, Cmd!Return, Cmd!inputs,
                  CommandInv, Granted, Cmd!Responses, Cmd!HostFor
    <2>9. ASSUME NEW e \in Cmd!GitalyErrors, Cmd!MoveFails(e) PROVE CommandInv'
      BY <2>9 DEF Cmd!MoveFails, Cmd!Return, Cmd!inputs, CommandInv, Granted, Cmd!Responses, Cmd!HostFor
    <2>10. CASE Cmd!MoveEnds
      BY <2>10 DEF Cmd!MoveEnds, Cmd!Audited, Cmd!Return, Cmd!inputs, CommandInv, Granted,
                   Cmd!Responses, Cmd!HostFor
    <2>11. CASE Cmd!AuditSent \/ Cmd!AuditFails
      BY <2>11 DEF Cmd!AuditSent, Cmd!AuditFails, Cmd!Return, Cmd!inputs, CommandInv, Granted,
                   Cmd!Responses, Cmd!HostFor
    <2> QED BY <2>1, <2>2, <2>3, <2>4, <2>5, <2>6, <2>7, <2>8, <2>9, <2>10, <2>11
            DEF Cmd!Next, Cmd!Done
  <1> QED BY <1>1, <1>2, PTL DEF Cmd!Spec

(* The command and the conversation stay together. *)
LEMMA MeetStep ==
  ASSUME CommandInv, MeetInv, Next
  PROVE  MeetInv'
  <1>1. CASE CmdStep
    <2>1. Idle /\ Idle' /\ exec = "none" /\ exec' = "none"
      <3>1. Idle
        BY <1>1 DEF CmdStep, Cmd!CheckArgs, Cmd!VerifyFails, Cmd!Verify, Cmd!StartGitaly,
                    Cmd!AuditSent, Cmd!AuditFails, CommandInv, MeetInv
      <3> QED BY <1>1, <3>1 DEF CmdStep, httpVars, MeetInv, Idle, Http!Idle
    <2>2. transport' \in {"none", "gitaly"}
      BY <1>1, <2>1 DEF CmdStep, Cmd!CheckArgs, Cmd!VerifyFails, Cmd!Verify, Cmd!StartGitaly,
                        Cmd!MoveEnds, Cmd!MoveFails, Cmd!AuditSent, Cmd!AuditFails, MeetInv
    <2>3. pc' = "done" /\ err' = "nil" => served'
      <3>1. CASE \E e \in Cmd!GitalyErrors : transport = "gitaly" /\ Cmd!MoveFails(e)
        BY <3>1, GitalyErrorIsError DEF Cmd!MoveFails, Cmd!Return
      <3>2. CASE ~ \E e \in Cmd!GitalyErrors : transport = "gitaly" /\ Cmd!MoveFails(e)
        BY <1>1, <3>2 DEF CmdStep, Cmd!CheckArgs, Cmd!VerifyFails, Cmd!Verify, Cmd!StartGitaly,
                          Cmd!MoveEnds, Cmd!AuditSent, Cmd!AuditFails, Cmd!Return, CommandInv
      <3> QED BY <3>1, <3>2
    <2> QED BY <2>1, <2>2, <2>3 DEF MeetInv
  <1>2. CASE Start
    <2>1. pc = "dispatch" /\ transport = "none" /\ Idle
      BY <1>2 DEF Start, Cmd!StartCells, Cmd!StartGeo, CommandInv, MeetInv
    <2>2. CASE transport' = "none"
      <3>1. UNCHANGED httpVars /\ pc' = "done" /\ err' # "nil"
        BY <1>2, <2>1, <2>2 DEF Start, Cmd!StartCells, Cmd!StartGeo, Cmd!Return
      <3> QED BY <2>1, <2>2, <3>1 DEF MeetInv, Idle, Http!Idle, httpVars
    <2>3. CASE transport' # "none"
      <3>1. transport' \in {"cells", "geo"} /\ Http!Start(ServiceFor)
        BY <1>2, <2>1, <2>3 DEF Start, Cmd!StartCells, Cmd!StartGeo
      <3>2. pc' = IF ServiceFor = "ssh" THEN "move" ELSE "infoRefs"
        BY <1>2, <2>1, <2>3 DEF Start, Cmd!StartCells, Cmd!StartGeo, ServiceFor, CommandInv,
                                Granted, Cmd!Responses
      <3>3. ServiceFor # "none"
        BY DEF ServiceFor
      <3> QED BY <3>1, <3>2, <3>3 DEF MeetInv, Idle, Http!Idle, Http!Start
    <2> QED BY <2>2, <2>3
  <1>3. CASE InfoRefs
    <2>1. /\ pc = "infoRefs" /\ exec = "infoRefs" /\ service' = service /\ transport' = transport
          /\ \/ pc' = "move" /\ exec' = "request"
             \/ pc' = "done" /\ exec' = "returned" /\ err' = "http"
      BY <1>3 DEF InfoRefs, Cmd!InfoRefs, Cmd!Return, Http!InfoRefsCopied, Http!InfoRefsFails,
                  Http!clientVars
    <2> QED BY <2>1 DEF MeetInv, Idle, Http!Idle
  <1>4. CASE Returns
    <2>1. /\ pc = "move" /\ pc' = "done" /\ exec' = "returned" /\ ~Idle
          /\ service' = service /\ transport' = transport
          /\ err' = "nil" => served' /\ httpErr' = "nil"
      <3>1. exec' = "returned" /\ ~Idle /\ service' = service
        BY <1>4 DEF Returns, Http!Refused, Http!CopyOut, Http!clientVars, MeetInv
      <3>2. CASE httpErr' = "nil"
        BY <1>4, <3>1, <3>2 DEF Returns, Cmd!MoveEnds, Cmd!Return, CommandInv, MeetInv
      <3>3. CASE httpErr' # "nil"
        BY <1>4, <3>1, <3>3, GitalyErrorIsError DEF Returns, Cmd!MoveFails, Cmd!Return
      <3> QED BY <3>1, <3>2, <3>3
    <2> QED BY <2>1 DEF MeetInv, Idle, Http!Idle
  <1>5. CASE HttpStep
    <2>1. /\ ~Idle /\ service' = service /\ httpErr' = httpErr
          /\ exec' = exec \/ (exec = "request" /\ exec' = "copyOut")
      BY <1>5 DEF HttpStep, Http!ClientSends, Http!ClientCloses, Http!ClientLeaves,
                  Http!SessionCloses, Http!StdinEnds, Http!Answered, Http!TransportCloses,
                  Http!ReaderStep, Http!ScanRead, Http!Scan, Http!ScanStops, Http!Write,
                  Http!WriteFails, Http!CopyRead, Http!CopyWrite, Http!CopyEnds, Http!ClosePipe,
                  Http!clientVars, Http!execVars
    <2>2. UNCHANGED <<pc, transport, err, served>>
      BY <1>5 DEF HttpStep, cmdVars
    <2> QED BY <2>1, <2>2 DEF MeetInv, Idle, Http!Idle
  <1>6. CASE Finished
    BY <1>6 DEF Finished, vars, cmdVars, httpVars, MeetInv, Idle, Http!Idle
  <1> QED BY <1>1, <1>2, <1>3, <1>4, <1>5, <1>6 DEF Next

(* The composition keeps the invariants of its parts, and keeps them in    *)
(* step.                                                                   *)
THEOREM Invariance == Spec => []IInv
  <1>1. Init => MeetInv
    BY DEF Init, Cmd!Init, Http!Init, MeetInv, Idle, Http!Idle
  <1>2. CommandInv /\ MeetInv /\ [Next]_vars => MeetInv'
    <2>1. MeetInv /\ UNCHANGED vars => MeetInv'
      BY DEF vars, cmdVars, httpVars, MeetInv, Idle, Http!Idle
    <2> QED BY <2>1, MeetStep
  <1>3. Spec => []HttpInv /\ []CommandInv
    BY ImplementsHttp, HttpInvariance, ImplementsCommand, CommandInvariance, PTL
  <1>4. Spec => []MeetInv
    BY <1>1, <1>2, <1>3, PTL DEF Spec
  <1>5. HttpInv /\ CommandInv /\ MeetInv => IInv
    BY DEF IInv
  <1> QED BY <1>3, <1>4, <1>5, PTL

-----------------------------------------------------------------------------
(* Of what the client sends nothing is read, or leaves, unless the host    *)
(* that owns the repository granted access; a push or fetch of another     *)
(* cell's repository takes the transport to that cell or none.             *)
THEOREM Allowed == Spec => []GitOnlyWhenAllowed
  <1>1. IInv => GitOnlyWhenAllowed
    <2> SUFFICES ASSUME IInv PROVE GitOnlyWhenAllowed
      OBVIOUS
    <2>1. taken > 0 \/ body # <<>> => ~Idle /\ transport \in {"cells", "geo"}
      BY DEF IInv, HttpInv, DataInv, PhaseInv, CommandInv, MeetInv
    <2>2. \A r \in Cmd!Responses : r # Cmd!NoResponse
      <3>1. \A r \in Cmd!Responses : DOMAIN r = {"success", "custom", "needAudit", "projectPath",
                                                 "sshDirect", "headers"}
        BY DEF Cmd!Responses
      <3>2. DOMAIN Cmd!NoResponse = {"none"}
        BY DEF Cmd!NoResponse
      <3> QED BY <3>1, <3>2
    <2>3. transport # "none" => Granted
      BY DEF IInv, CommandInv
    <2>4. cell # "none" /\ command \in Cmd!PackCommands => transport \in {"none", "cells"}
      BY DEF IInv, CommandInv
    <2> QED BY <2>1, <2>2, <2>3, <2>4 DEF GitOnlyWhenAllowed, Granted
  <1> QED BY <1>1, Invariance, PTL

(* Execute returns nil only if the transport ended without an error, over  *)
(* HTTP after the answer was copied.                                       *)
THEOREM Served == Spec => []NilMeansServed
  <1>1. IInv => NilMeansServed
    BY DEF IInv, MeetInv, NilMeansServed
  <1> QED BY <1>1, Invariance, PTL

(* An audit event is sent only for what Gitaly completed and was to be     *)
(* audited, and to the host that granted the access.                       *)
THEOREM Audited == Spec => []AuditedOnlyWhenServed
  <1>1. IInv => AuditedOnlyWhenServed
    BY DEF IInv, CommandInv, AuditedOnlyWhenServed
  <1> QED BY <1>1, Invariance, PTL

(* What a fetch, or a client over SSH's protocol, sends arrives without a  *)
(* gap: only readFromStdin of a push may leave out what it had read.       *)
Unbroken ==
  service # "push" => Len(body) <= Len(input) /\ \A i \in 1..Len(body) : body[i] = input[i]

(* The remote end of a fetch has received a prefix of what was sent. *)
THEOREM FetchUnbroken == Spec => []Unbroken
  <1>1. IInv => Unbroken
    <2> SUFFICES ASSUME IInv, service # "push" PROVE Unbroken
      BY DEF Unbroken
    <2>1. PICK n \in 0..Len(body), gap \in 0..(Len(input) - Len(body)) : Shape(n, gap)
      BY DEF IInv, HttpInv, CopyInv
    <2>2. Len(body) \in Nat /\ Len(input) \in Nat
      BY DEF IInv, HttpInv, DataInv
    <2>3. gap = 0
      BY <2>1, <2>2 DEF Shape
    <2> QED BY <2>1, <2>2, <2>3 DEF Shape, Unbroken
  <1> QED BY <1>1, Invariance, PTL
=============================================================================
