------------------------------- MODULE GitHTTP -------------------------------
(***************************************************************************)
(* Git over HTTP (internal/command/githttp): the client's side of a push   *)
(* or a fetch, which arrives on stdin, becomes the body of one POST to the *)
(* Geo primary or, in SSH's own protocol, to the primary or a cell.  For   *)
(* "push" and "pull" a goroutine scans stdin for the packet that ends the  *)
(* conversation and writes to a pipe that the request reads; for "ssh" the *)
(* request reads stdin itself.  The client, the remote end and Go's HTTP   *)
(* transport are the environment.                                          *)
(***************************************************************************)
EXTENDS Naturals, Sequences, SequencesExt

CONSTANTS Pushes, Pulls    \* what clients may send: sequences of Packets

(* An update or a removal of a ref, a flush, a chunk of pack data, the end *)
(* of a negotiation, another packet, and bytes that are no packet.         *)
Packets == {"update", "remove", "flush", "pack", "done", "line", "bad"}

VARIABLES
  service,   \* "push", "pull" or "ssh"; "none" before the conversation
  input,     \* all that the client has to say
  arrived,   \* how much of it has arrived on stdin
  eof,       \* nothing more will
  taken,     \* how much of it has been read from stdin
  buf,       \* of that, what the scanner holds and has not returned
  line,      \* the packet that is to be written
  needsPackData,
  reader,    \* the goroutine that reads stdin
  pipe,      \* the end the request reads: "open" or "closed"
  body,      \* what the remote end has received
  bodyEnd,   \* and that it was all
  exec,      \* where Execute is
  httpErr    \* what it returned

clientVars == <<service, input, arrived, eof>>
scanVars == <<taken, buf, line, needsPackData>>
execVars == <<exec, httpErr>>
vars == <<clientVars, scanVars, reader, pipe, body, bodyEnd, execVars>>

Init ==
  /\ service = "none" /\ input = <<>> /\ exec = "none" /\ reader = "off"
  /\ arrived = 0 /\ eof = FALSE
  /\ taken = 0 /\ buf = <<>> /\ line = "none" /\ needsPackData = FALSE
  /\ pipe = "open" /\ body = <<>> /\ bodyEnd = FALSE
  /\ httpErr = "nil"

Idle == service = "none"

(* Execute of PushCommand or PullCommand, or an SSH request, begins. *)
Start(svc) ==
  /\ Idle
  /\ service' = svc
  /\ input' \in CASE svc = "push" -> Pushes
                  [] svc = "pull" -> Pulls
                  [] OTHER        -> Pushes \cup Pulls
  /\ exec' = IF svc = "ssh" THEN "request" ELSE "infoRefs"
  /\ reader' = IF svc = "ssh" THEN "copy" ELSE "off"
  /\ UNCHANGED <<arrived, eof, scanVars, pipe, body, bodyEnd, httpErr>>

-----------------------------------------------------------------------------
(* The client.  It speaks once it has seen the refs; whoever sends a pack  *)
(* closes stdin behind it, the others keep it open and wait.               *)

ClientSends ==
  /\ exec \notin {"none", "infoRefs"} /\ ~eof /\ arrived < Len(input)
  /\ arrived' = arrived + 1
  /\ UNCHANGED <<service, input, eof, scanVars, reader, pipe, body, bodyEnd, execVars>>

StdinEnds ==
  /\ ~Idle /\ ~eof
  /\ eof' = TRUE
  /\ UNCHANGED <<service, input, arrived, scanVars, reader, pipe, body, bodyEnd, execVars>>

ClientCloses == StdinEnds /\ arrived = Len(input) /\ "pack" \in ToSet(input)
ClientLeaves == StdinEnds
SessionCloses == StdinEnds /\ exec = "returned"

-----------------------------------------------------------------------------
(* Execute. *)

(* requestInfoRefs has copied the refs to the client; the goroutine starts *)
(* and the request with it.                                                *)
InfoRefsCopied ==
  /\ exec = "infoRefs"
  /\ exec' = "request"
  /\ reader' = "scan"
  /\ UNCHANGED <<clientVars, scanVars, pipe, body, bodyEnd, httpErr>>

(* The request fails, its answer does not begin with the service's prefix, *)
(* of which one Read may give a part only, or the client has gone.         *)
InfoRefsFails ==
  /\ exec = "infoRefs"
  /\ exec' = "returned" /\ httpErr' = "error"
  /\ UNCHANGED <<clientVars, scanVars, reader, pipe, body, bodyEnd>>

(* Client.do: an answer below 400. *)
Answered ==
  /\ exec = "request"
  /\ exec' = "copyOut"
  /\ UNCHANGED <<clientVars, scanVars, reader, pipe, body, bodyEnd, httpErr>>

(* Client.do: an answer of 400 or more, or none. *)
Refused ==
  /\ exec = "request"
  /\ exec' = "returned" /\ httpErr' = "error"
  /\ UNCHANGED <<clientVars, scanVars, reader, pipe, body, bodyEnd>>

(* io.Copy of the answer to the client. *)
CopyOut ==
  /\ exec = "copyOut"
  /\ exec' = "returned" /\ httpErr' \in {"nil", "error"}
  /\ UNCHANGED <<clientVars, scanVars, reader, pipe, body, bodyEnd>>

(* The transport closes the body of a request that is over. *)
TransportCloses ==
  /\ exec = "returned" /\ pipe = "open"
  /\ pipe' = "closed"
  /\ UNCHANGED <<clientVars, scanVars, reader, body, bodyEnd, execVars>>

-----------------------------------------------------------------------------
(* readFromStdin. *)

IsFlush(pkt) == pkt = "flush"
IsDone(pkt) == pkt = "done"
IsRefRemoval(pkt) == pkt = "remove"

EndsScan(pkt) == IF service = "push" THEN IsFlush(pkt) ELSE IsDone(pkt)

(* After the loop: a push with an update copies the rest of stdin. *)
AfterScan == IF service = "push" /\ needsPackData THEN "copy" ELSE "close"

(* bufio.Scanner: without a packet in its buffer it reads stdin, as much   *)
(* as there is or less.                                                    *)
ScanRead(n) ==
  /\ reader = "scan" /\ buf = <<>>
  /\ n \in 1..(arrived - taken)
  /\ buf' = SubSeq(input, taken + 1, taken + n)
  /\ taken' = taken + n
  /\ UNCHANGED <<clientVars, line, needsPackData, reader, pipe, body, bodyEnd, execVars>>

(* pktLineSplitter finds a packet. *)
Scan ==
  /\ reader = "scan" /\ buf # <<>> /\ Head(buf) # "bad"
  /\ line' = Head(buf) /\ buf' = Tail(buf)
  /\ reader' = "write"
  /\ UNCHANGED <<clientVars, taken, needsPackData, pipe, body, bodyEnd, execVars>>

(* stdin has ended, or what is on it is no packet. *)
ScanStops ==
  /\ reader = "scan"
  /\ IF buf = <<>> THEN eof /\ taken = arrived ELSE Head(buf) = "bad"
  /\ reader' = AfterScan
  /\ UNCHANGED <<clientVars, scanVars, pipe, body, bodyEnd, execVars>>

(* Mutant: removals are taken for updates. *)
LineWritten_AlwaysPack ==
  IF EndsScan(line)
    THEN reader' = AfterScan /\ UNCHANGED needsPackData
    ELSE reader' = "scan" /\ needsPackData' = TRUE

(* needsPackData is a push's; a fetch never looks at it (AfterScan). *)
LineWritten ==
  IF EndsScan(line)
    THEN reader' = AfterScan /\ UNCHANGED needsPackData
    ELSE reader' = "scan" /\ needsPackData' = (needsPackData \/ ~IsRefRemoval(line))

(* Mutant: the last packet is looked at before it is written. *)
Write_NotTheLast ==
  /\ reader = "write" /\ pipe = "open"
  /\ body' = IF EndsScan(line) THEN body ELSE Append(body, line)
  /\ LineWritten
  /\ UNCHANGED <<clientVars, taken, buf, line, pipe, bodyEnd, execVars>>

(* The pipe has no buffer: a write is done when the request has read it. *)
Write ==
  /\ reader = "write" /\ pipe = "open"
  /\ body' = Append(body, line)
  /\ LineWritten
  /\ UNCHANGED <<clientVars, taken, buf, line, pipe, bodyEnd, execVars>>

(* Mutant: what could not be written is tried again. *)
WriteFails_Retries ==
  /\ reader = "write" /\ pipe = "closed"
  /\ UNCHANGED vars

(* The error is logged and the loop goes on. *)
WriteFails ==
  /\ reader = "write" /\ pipe = "closed"
  /\ LineWritten
  /\ UNCHANGED <<clientVars, taken, buf, line, pipe, body, bodyEnd, execVars>>

(* io.Copy of stdin itself, to the pipe or as the body: not of what the    *)
(* scanner still holds.                                                    *)
CopyRead ==
  /\ reader = "copy" /\ taken < arrived
  /\ line' = input[taken + 1] /\ taken' = taken + 1
  /\ reader' = "copyWrite"
  /\ UNCHANGED <<clientVars, buf, needsPackData, pipe, body, bodyEnd, execVars>>

CopyWrite ==
  /\ reader = "copyWrite"
  /\ IF pipe = "open" THEN body' = Append(body, line) /\ reader' = "copy"
                      ELSE reader' = "close" /\ UNCHANGED body
  /\ UNCHANGED <<clientVars, scanVars, pipe, bodyEnd, execVars>>

CopyEnds ==
  /\ reader = "copy" /\ eof /\ taken = arrived
  /\ reader' = "close"
  /\ UNCHANGED <<clientVars, scanVars, pipe, body, bodyEnd, execVars>>

(* pw.Close: the request sees the end of its body. *)
ClosePipe ==
  /\ reader = "close"
  /\ reader' = "ended"
  /\ bodyEnd' = (pipe = "open")
  /\ UNCHANGED <<clientVars, scanVars, pipe, body, execVars>>

-----------------------------------------------------------------------------
ReaderStep ==
  \/ (\E n \in 1..Len(input) : ScanRead(n)) \/ Scan \/ ScanStops
  \/ Write \/ WriteFails \/ CopyRead \/ CopyWrite \/ CopyEnds \/ ClosePipe

(* The command is over, its goroutine too. *)
Finished == exec = "returned" /\ eof /\ reader \in {"off", "ended"} /\ UNCHANGED vars

Next ==
  \/ (\E svc \in {"push", "pull", "ssh"} : Start(svc))
  \/ ClientSends \/ ClientCloses \/ ClientLeaves \/ SessionCloses
  \/ InfoRefsCopied \/ InfoRefsFails \/ Answered \/ Refused \/ CopyOut \/ TransportCloses
  \/ ReaderStep \/ Finished

Spec == Init /\ [][Next]_vars

(* What the remote end is to answer: a request that is complete, or in     *)
(* SSH's protocol all that the client has to say.                          *)
Owed == bodyEnd \/ (service = "ssh" /\ body = input)

-----------------------------------------------------------------------------
(* Properties. *)

(* What the remote end receives is what the client sent, from its first    *)
(* packet, in order and without repetition.  Only where the scanner of a   *)
(* push stopped, at its flush or before bytes that are no packet, may      *)
(* something be left out: what it had read beyond (readFromStdin).         *)
BodyInOrder ==
  \E n \in 0..Len(body), gap \in 0..(Len(input) - Len(body)) :
    /\ gap > 0 => /\ service = "push" /\ n > 0
                  /\ body[n] = "flush" \/ input[n + 1] = "bad"
    /\ body = SubSeq(input, 1, n) \o SubSeq(input, n + gap + 1, gap + Len(body))

(* push.go: "Read the send-pack data provided by user via SSH" and         *)
(* "Perform /git-receive-pack request and send this data"; push_test.go    *)
(* expects the body to be all that was sent: a body that was ended after   *)
(* the client had said all is all that it said.                            *)
AllDataSent ==
  (bodyEnd /\ arrived = Len(input) /\ "bad" \notin ToSet(input)) => body = input
=============================================================================
