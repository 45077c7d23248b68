--------------------------------- MODULE Relay ---------------------------------
(***************************************************************************)
(* One connection of a local forward: what -L, -D and -H read and answer   *)
(* before they open a channel, and the pumps of ForwardPump after it.  The *)
(* client's stream starts with its request, in pieces: nothing for -L, the *)
(* greeting and the CONNECT of SOCKS5, and for -H the request up to the    *)
(* host, the first digits of the port, and the rest of the header.         *)
(***************************************************************************)
EXTENDS ForwardPump, Sequences

VARIABLES
  kind,     \* "L", "D" or "H"
  patient,  \* the client sends its header in one piece, and waits for answers
  phase,    \* "greeting", "request", "open", "relay", "closed"
  target,   \* where the channel is to go: "asked", another place, or "none" yet
  answers   \* what the client has been answered

requestVars == <<kind, patient, phase, target, answers>>
relayVars == <<pumpVars, requestVars>>

Pieces(k) == CASE k = "L" -> 0 [] k = "D" -> 2 [] k = "H" -> 3
RequestPieces == Pieces(kind)

RelayTypeOK ==
  /\ PumpTypeOK
  /\ kind \in {"L", "D", "H"}
  /\ patient \in BOOLEAN
  /\ phase \in {"greeting", "request", "open", "relay", "closed"}
  /\ target \in {"none", "asked", "elsewhere"}
  /\ answers \in Seq({"method", "ok", "failed", "400", "502"})

RelayInit ==
  /\ PumpInit
  /\ kind \in {"L", "D", "H"}
  /\ patient \in BOOLEAN
  /\ phase = CASE kind = "L" -> "open" [] kind = "D" -> "greeting" [] kind = "H" -> "request"
  /\ target = IF kind = "L" THEN "asked" ELSE "none"
  /\ answers = << >>

Arrived == sent["stream"] - read
Readable == "stream" \notin broken
NoMore == ~Readable \/ ("stream" \in finished /\ Arrived = 0)
peers == <<waits, sent, finished, broken, got, told>>

Take(n) == read' = read + n /\ start' = read + n

\* The stream is dropped with the tasks' work not begun.
Close ==
  /\ phase' = "closed"
  /\ task' = [s \in Sides |-> "ended"]

Answer(reply) == answers' = Append(answers, reply)

------------------------------------------------------------------------------
(* -D *)

\* socks5_handshake, first half: read_exact, then the method is chosen.
Greeting ==
  /\ phase = "greeting"
  /\ \/ /\ Readable /\ Arrived >= 1
        /\ Take(1)
        /\ Answer("method")
        /\ phase' = "request"
        /\ UNCHANGED task
     \/ NoMore /\ Close /\ UNCHANGED <<start, read, answers>>
  /\ UNCHANGED <<peers, kind, patient, target>>

\* Mutant: read() in place of read_exact takes all that is there.
SocksRequestReadsOn ==
  /\ kind = "D" /\ phase = "request"
  /\ \/ /\ Readable /\ Arrived >= 1
        /\ Take(Arrived)
        /\ phase' = "open" /\ target' = "asked" /\ UNCHANGED task
     \/ NoMore /\ Close /\ UNCHANGED <<start, read, target>>
  /\ UNCHANGED <<peers, kind, patient, answers>>

\* The second half; an address type it does not know drops the client unanswered.
SocksRequest ==
  /\ kind = "D" /\ phase = "request"
  /\ \/ /\ Readable /\ Arrived >= 1
        /\ Take(1)
        /\ \/ phase' = "open" /\ target' = "asked" /\ UNCHANGED task
           \/ Close /\ UNCHANGED target
     \/ NoMore /\ Close /\ UNCHANGED <<start, read, target>>
  /\ UNCHANGED <<peers, kind, patient, answers>>

------------------------------------------------------------------------------
(* -H *)

\* parse_connect_request on what one read returned: without the colon it is a bad
\* request; a port that is cut short is a port.
ParsedTarget(n) == CASE n = 1 -> "none" [] n = 2 -> "elsewhere" [] n >= 3 -> "asked"

\* http_connect_handle_one: a single read, whatever it returns.
HttpRequest ==
  /\ kind = "H" /\ phase = "request"
  /\ \/ /\ Readable
        /\ \E n \in 1 .. Arrived :
             /\ patient => n = Arrived
             /\ Take(n)
             /\ target' = ParsedTarget(n)
        /\ IF target' = "none"
           THEN Answer("400") /\ Close
           ELSE phase' = "open" /\ UNCHANGED <<answers, task>>
     \/ NoMore /\ Close /\ UNCHANGED <<start, read, target, answers>>
  /\ UNCHANGED <<peers, kind, patient>>

------------------------------------------------------------------------------
(* The channel *)

OpenRefused ==
  CASE kind = "D" -> Answer("failed")
    [] kind = "H" -> Answer("502")
    [] OTHER -> UNCHANGED answers

\* channel_open_direct_tcpip; the client of -D and -H is answered before the pumps
\* start, and a SOCKS client that is gone by then ends the connection.
OpenDirect ==
  /\ phase = "open"
  /\ \/ /\ "channel" \notin broken
        /\ IF kind = "L" THEN UNCHANGED answers ELSE Answer("ok")
        /\ \/ phase' = "relay" /\ UNCHANGED task
           \/ kind = "D" /\ "stream" \in broken /\ Close
     \/ OpenRefused /\ Close
  /\ UNCHANGED <<peers, start, read, kind, patient, target>>

Connecting == Greeting \/ SocksRequest \/ HttpRequest \/ OpenDirect

\* The client.  A patient one sends the greeting and waits, sends its request and
\* waits, and only then its data.
ClientSends ==
  /\ "stream" \notin finished \cup broken
  /\ \E n \in 1 .. Blocks["stream"] - sent["stream"] :
       /\ patient =>
            CASE kind = "H" /\ sent["stream"] = 0 -> n = RequestPieces
              [] kind = "D" /\ sent["stream"] = 1 -> n = 1 /\ answers # << >>
              [] sent["stream"] >= RequestPieces -> n = 1 /\ (kind = "L" \/ phase = "relay")
              [] OTHER -> n = 1
       /\ sent' = [sent EXCEPT !["stream"] = @ + n]
  /\ UNCHANGED <<waits, finished, broken, start, read, got, told, task, requestVars>>

Pumping == phase = "relay"

RelayNext ==
  \/ Connecting
  \/ Pumping /\ (C2S \/ S2C \/ PeerSends("channel")) /\ UNCHANGED requestVars
  \/ ClientSends
  \/ Finish("stream") /\ UNCHANGED requestVars
  \/ Pumping /\ Finish("channel") /\ UNCHANGED requestVars
  \/ \E s \in Sides : Break(s) /\ UNCHANGED requestVars

\* The runtime polls the tasks, and an open is answered.  A peer that does not wait
\* for anything ends its direction; no transport has to break.
RelayFairness ==
  /\ WF_relayVars(Connecting)
  /\ WF_relayVars(Pumping /\ C2S /\ UNCHANGED requestVars)
  /\ WF_relayVars(Pumping /\ S2C /\ UNCHANGED requestVars)
  /\ WF_relayVars(Finish("stream") /\ UNCHANGED requestVars)
  /\ WF_relayVars(Pumping /\ Finish("channel") /\ UNCHANGED requestVars)

RelaySpec == RelayInit /\ [][RelayNext]_relayVars
RelayFairSpec == RelaySpec /\ RelayFairness

------------------------------------------------------------------------------
\* The request is kept apart from the data: the pumps start exactly where the
\* request ends and the channel goes where it says.  -D keeps this for a client
\* that sends on without waiting as well (read_exact); -H reads once, so it needs
\* one that sends its header in one piece and waits for the 200.
RequestKeptApart ==
  Pumping /\ (kind = "H" => patient) => start = RequestPieces /\ target = "asked"

\* The end of the stream is passed on, after all of its data: the channel's peer
\* is told, unless a transport breaks or there never was a channel ("let _ =
\* ctx.eof().await").
EndPassedOn ==
  "stream" \in finished ~>
     \/ told /\ got["channel"] = sent["stream"] - start
     \/ phase = "closed"
     \/ broken # {}
==============================================================================
