------------------------------- MODULE Pages -------------------------------
(***************************************************************************)
(* The Hub (hub.mjs), the runtime in one page (page-runtime.js) and the    *)
(* command line that sends the page commands (page_control.py).  The page  *)
(* keeps one socket at a time; messages of a socket arrive in order, the   *)
(* two sides learn of its end separately, and nothing orders two sockets.  *)
(*                                                                         *)
(* 0 is no socket; the number of one that is over on both sides is used    *)
(* again.                                                                  *)
(***************************************************************************)
EXTENDS Naturals, Sequences, SequencesExt

CONSTANTS None,
          Commands, Requests,         \* what the command line sends, what the page asks
          HubCommands, PageCommands,  \* at most at once, in the Hub and in the page
          HubHandlers, PageRequests,
          MaxTries,                   \* before the page gives up
          MaxSockets,
          Runs      \* of calls, and of how much happens to the page, sockets and Hub

VARIABLES page, conn, hub, calls, left

vars == <<page, conn, hub, calls, left>>

Sockets == 1 .. MaxSockets
Event   == left > 0 /\ left' = left - 1
Answers == {"ok", "failed", "not_found", "busy", "timeout", "disconnected", "not_connected"}

-----------------------------------------------------------------------------
(* conn[s]: the messages in either direction and the Hub's side of it.     *)
Unused == [up |-> <<>>, down |-> <<>>, hub |-> "none", named |-> FALSE, pending |-> 0]

Msg(kind, item, session) == [kind |-> kind, item |-> item, session |-> session]
Hello == Msg("hello", None, 0)
Close == Msg("close", None, 0)

(* Nothing is sent on a socket this side has closed, and the page ignores  *)
(* whatever comes on one it no longer has.                                 *)
Up(cs, s, m)   == IF s # 0 /\ cs[s].hub \in {"none", "open"} THEN [cs EXCEPT ![s].up = Append(@, m)] ELSE cs
Down(cs, s, m) == IF cs[s].hub = "open" /\ page.sock = s THEN [cs EXCEPT ![s].down = Append(@, m)] ELSE cs

Shut(cs, s) == IF s # 0 /\ cs[s].hub = "open"
                 THEN [Down(cs, s, Close) EXCEPT ![s].hub = "closing"] ELSE cs

(* Both sides know that it is over; handlers of it may still run.          *)
Over(cs, s) == [cs EXCEPT ![s] = [Unused EXCEPT !.pending = cs[s].pending]]

-----------------------------------------------------------------------------
(* The page.                                                               *)

Idle  == page.hidden \/ page.paused
Ready == page.sock # 0 /\ page.session = page.sock

(* stop(): the socket goes, and what was asked over it is over.            *)
Stopped(p) == [p EXCEPT !.sock = 0, !.session = 0, !.pending = {}, !.due = FALSE]
Abandoned(cs) ==
    CASE page.sock = 0 -> cs
      [] page.sock # 0 /\ cs[page.sock].hub \in {"none", "closed"} -> Over(cs, page.sock)
      [] OTHER -> [Up(cs, page.sock, Close) EXCEPT ![page.sock].down = <<>>]
Disconnected(as) == [x \in DOMAIN as |-> IF x \in page.pending THEN "disconnected" ELSE as[x]]

Free == {s \in Sockets : /\ conn[s] = Unused /\ page.sock # s
                         /\ \A c \in DOMAIN hub.commands : hub.commands[c] # s
                         /\ \A c \in DOMAIN hub.posted : hub.posted[c] # s}

Connect ==
    /\ page.due /\ ~Idle /\ page.sock = 0 /\ Free # {}
    /\ page' = [page EXCEPT !.sock = Min(Free), !.due = FALSE]
    /\ UNCHANGED <<conn, hub, calls, left>>

(* onopen.                                                                 *)
Upgrade(s) ==
    /\ s = page.sock /\ conn[s].hub = "none" /\ hub.up
    /\ conn' = [conn EXCEPT ![s].hub = "open", ![s].up = <<Hello>>]
    /\ UNCHANGED <<page, hub, calls, left>>

(* onclose: another try, or none.                                          *)
Lost ==
    LET p == Stopped(page)
    IN  IF page.tries < MaxTries THEN [p EXCEPT !.tries = @ + 1, !.due = TRUE]
        ELSE [p EXCEPT !.gaveUp = TRUE]

UpgradeFails(s) ==
    /\ s = page.sock /\ conn[s].hub = "none" /\ ~hub.up
    /\ page' = Lost /\ UNCHANGED <<conn, hub, calls, left>>

(* The Hub refuses it: too many peers, a token or an origin it does not    *)
(* accept any more.                                                        *)
UpgradeRefused(s) ==
    /\ s = page.sock /\ conn[s].hub = "none" /\ hub.up /\ Event
    /\ page' = Lost /\ UNCHANGED <<conn, hub, calls>>

Received(s, kind) == page.sock = s /\ conn[s].down # <<>> /\ Head(conn[s].down).kind = kind
Took(s) == conn' = [conn EXCEPT ![s].down = Tail(@)]

PageLosesSocket(s) ==
    /\ Received(s, "close")
    /\ conn' = IF conn[s].hub = "closed" THEN Over(conn, s) ELSE [conn EXCEPT ![s].down = <<>>]
    /\ page' = Lost /\ calls' = Disconnected(calls)
    /\ UNCHANGED <<hub, left>>

Welcome(s) ==
    /\ Received(s, "welcome") /\ Took(s)
    /\ page' = [page EXCEPT !.session = s, !.tries = 0, !.gaveUp = FALSE]
    /\ UNCHANGED <<hub, calls, left>>

(* runCommand.                                                             *)
RunCommand(s) ==
    /\ Received(s, "command")
    /\ LET c == Head(conn[s].down).item
           rest == [conn EXCEPT ![s].down = Tail(@)]
       IN  IF Cardinality(page.inbound) >= PageCommands
             THEN conn' = Up(rest, s, Msg("failed", c, s)) /\ UNCHANGED page
             ELSE conn' = rest /\ page' = [page EXCEPT !.inbound = @ \cup {c}]
    /\ UNCHANGED <<hub, calls, left>>

(* commandResult: over the socket there is by then, in its session.        *)
CommandEnds(c) ==
    /\ c \in page.inbound
    /\ page' = [page EXCEPT !.inbound = @ \ {c}]
    /\ \E how \in {"ok", "failed"} :
         conn' = IF page.sock # 0 /\ conn[page.sock].hub # "none"
                   THEN Up(conn, page.sock, Msg(how, c, page.session)) ELSE conn
    /\ UNCHANGED <<hub, calls, left>>

ReceiveResult(s) ==
    /\ Received(s, "result") /\ Took(s)
    /\ LET r == Head(conn[s].down).item
       IN  /\ page' = [page EXCEPT !.pending = @ \ {r}]
           /\ calls' = IF r \in page.pending THEN [calls EXCEPT ![r] = "ok"] ELSE calls
    /\ UNCHANGED <<hub, left>>

(* TapBridge.request: it may have to wait for a socket, and makes a page   *)
(* that gave up try again.                                                 *)
Ask(r) ==
    /\ r \in Requests /\ calls[r] = "new"
    /\ calls' = [calls EXCEPT ![r] = "waiting"]
    /\ page' = IF ~Ready /\ ~Idle /\ (page.sock = 0 \/ page.gaveUp)
                 THEN [Stopped(page) EXCEPT !.tries = 0, !.gaveUp = FALSE, !.due = TRUE] ELSE page
    /\ UNCHANGED <<conn, hub, left>>

Send(r) ==
    /\ r \in Requests /\ calls[r] = "waiting" /\ Ready
    /\ IF Cardinality(page.pending) >= PageRequests
         THEN calls' = [calls EXCEPT ![r] = "busy"] /\ UNCHANGED <<page, conn>>
         ELSE /\ calls' = [calls EXCEPT ![r] = "sent"]
              /\ page' = [page EXCEPT !.pending = @ \cup {r}]
              /\ conn' = Up(conn, page.sock, Msg("request", r, page.session))
    /\ UNCHANGED <<hub, left>>

RequestTimeout(r) ==
    /\ r \in Requests /\ calls[r] \in {"waiting", "sent"}
    /\ calls' = [calls EXCEPT ![r] = IF @ = "waiting" THEN "not_connected" ELSE "timeout"]
    /\ page' = [page EXCEPT !.pending = @ \ {r}]
    /\ UNCHANGED <<conn, hub, left>>

(* disconnect(), connect(), reconnect(), pagehide and pageshow.            *)
Use(p, stops) ==
    /\ Event
    /\ page' = p
    /\ IF stops THEN conn' = Abandoned(conn) /\ calls' = Disconnected(calls)
       ELSE UNCHANGED <<conn, calls>>
    /\ UNCHANGED hub

Retrying(p) == [p EXCEPT !.tries = 0, !.gaveUp = FALSE, !.due = p.sock = 0]

Uses ==
    \/ ~page.paused /\ Use([Stopped(page) EXCEPT !.paused = TRUE], TRUE)
    \/ page.paused /\ ~page.hidden /\ Use(Retrying([page EXCEPT !.paused = FALSE]), FALSE)
    \/ ~page.hidden /\ Use(Retrying([Stopped(page) EXCEPT !.paused = FALSE]), TRUE)
    \/ ~page.hidden /\ Use([Stopped(page) EXCEPT !.hidden = TRUE], TRUE)
    \/ page.hidden /\ Use(Retrying([page EXCEPT !.hidden = FALSE]), FALSE)

-----------------------------------------------------------------------------
(* The Hub.                                                                *)

Heard(s, kinds) == hub.up /\ conn[s].hub = "open" /\ conn[s].up # <<>> /\ Head(conn[s].up).kind \in kinds
Rest(s) == [conn EXCEPT ![s].up = Tail(@)]

(* A second Hello of a page replaces its socket.                           *)
HearHello(s) ==
    /\ Heard(s, {"hello"})
    /\ conn' = Down(Shut([Rest(s) EXCEPT ![s].named = TRUE], hub.registered), s, Msg("welcome", None, s))
    /\ hub' = [hub EXCEPT !.registered = s]
    /\ UNCHANGED <<page, calls, left>>

HelloTimeout(s) ==
    /\ hub.up /\ conn[s].hub = "open" /\ ~conn[s].named
    /\ Event /\ conn' = Shut(conn, s) /\ UNCHANGED <<page, hub, calls>>

(* A result counts for a command that is still waited for; one that comes  *)
(* over another socket than its command, or in no session, is a fault.     *)
HearResult(s) ==
    /\ Heard(s, {"ok", "failed"})
    /\ LET m == Head(conn[s].up)
           known == m.item \in DOMAIN hub.commands
       IN  IF m.session # s \/ (known /\ hub.commands[m.item] # s)
             THEN conn' = Shut(Rest(s), s) /\ UNCHANGED <<hub, calls>>
             ELSE /\ conn' = Rest(s)
                  /\ hub' = [hub EXCEPT !.commands = [x \in DOMAIN @ \ {m.item} |-> @[x]]]
                  /\ calls' = IF known THEN [calls EXCEPT ![m.item] = m.kind] ELSE calls
    /\ UNCHANGED <<page, left>>

(* invoke.                                                                 *)
HearRequest(s) ==
    /\ Heard(s, {"request"})
    /\ LET r == Head(conn[s].up).item
       IN  IF hub.active >= HubHandlers \/ conn[s].pending >= PageRequests
             THEN conn' = Down(Rest(s), s, Msg("result", r, s)) /\ UNCHANGED hub
             ELSE /\ conn' = [Rest(s) EXCEPT ![s].pending = @ + 1]
                  /\ hub' = [hub EXCEPT !.active = @ + 1, !.running = @ \cup {<<r, s>>}]
    /\ UNCHANGED <<page, calls, left>>

(* The handler answers, fails, or is killed at its time limit or with its  *)
(* socket.                                                                 *)
HandlerEnds(r, s) ==
    /\ <<r, s>> \in hub.running
    /\ hub' = [hub EXCEPT !.active = @ - 1, !.running = @ \ {<<r, s>>}]
    /\ conn' = Down([conn EXCEPT ![s].pending = @ - 1], s, Msg("result", r, s))
    /\ UNCHANGED <<page, calls, left>>

(* Mutant: the page is forgotten with any socket of it.                    *)
ClosedForgets(s) ==
    /\ hub.up /\ \/ conn[s].hub = "closing"
                 \/ Heard(s, {"close"})
    /\ conn' = IF page.sock = s THEN [conn EXCEPT ![s].hub = "closed", ![s].up = <<>>] ELSE Over(conn, s)
    /\ LET mine == {c \in DOMAIN hub.commands : hub.commands[c] = s}
       IN  /\ hub' = [hub EXCEPT !.registered = 0,
                                 !.commands = [x \in DOMAIN @ \ mine |-> @[x]]]
           /\ calls' = [x \in DOMAIN calls |-> IF x \in mine THEN "disconnected" ELSE calls[x]]
    /\ UNCHANGED <<page, left>>

(* close(ws): the page is forgotten if this is its socket still.           *)
Closed(s) ==
    /\ hub.up /\ \/ conn[s].hub = "closing"
                 \/ Heard(s, {"close"})
    /\ conn' = IF page.sock = s THEN [conn EXCEPT ![s].hub = "closed", ![s].up = <<>>] ELSE Over(conn, s)
    /\ LET mine == {c \in DOMAIN hub.commands : hub.commands[c] = s}
       IN  /\ hub' = [hub EXCEPT !.registered = IF @ = s THEN 0 ELSE @,
                                 !.commands = [x \in DOMAIN @ \ mine |-> @[x]]]
           /\ calls' = [x \in DOMAIN calls |-> IF x \in mine THEN "disconnected" ELSE calls[x]]
    /\ UNCHANGED <<page, left>>

-----------------------------------------------------------------------------
(* Commands: the page and the room for it are looked up before the body of *)
(* the request is awaited, and not again after it.                         *)

Waiting(s) == {c \in DOMAIN hub.commands : hub.commands[c] = s}

Post(c) ==
    /\ c \in Commands /\ calls[c] = "new" /\ hub.up
    /\ IF hub.registered = 0 THEN calls' = [calls EXCEPT ![c] = "not_found"] /\ UNCHANGED hub
       ELSE IF \/ Cardinality(DOMAIN hub.commands) >= HubCommands
               \/ Cardinality(Waiting(hub.registered)) >= PageCommands
              THEN calls' = [calls EXCEPT ![c] = "busy"] /\ UNCHANGED hub
            ELSE /\ calls' = [calls EXCEPT ![c] = "posted"]
                 /\ hub' = [hub EXCEPT !.posted = [x \in DOMAIN @ \cup {c} |->
                                                     IF x = c THEN hub.registered ELSE @[x]]]
    /\ UNCHANGED <<page, conn, left>>

SendCommand(c) ==
    /\ c \in Commands /\ calls[c] = "posted"
    /\ LET s == hub.posted[c]
       IN  /\ hub' = [hub EXCEPT !.posted = [x \in DOMAIN @ \ {c} |-> @[x]],
                                 !.commands = [x \in DOMAIN @ \cup {c} |-> IF x = c THEN s ELSE @[x]]]
           /\ conn' = Down(conn, s, Msg("command", c, s))
    /\ calls' = [calls EXCEPT ![c] = "sent"]
    /\ UNCHANGED <<page, left>>

(* Its body is too long, is no JSON or names no operation.                 *)
RefuseCommand(c) ==
    /\ c \in Commands /\ calls[c] = "posted"
    /\ hub' = [hub EXCEPT !.posted = [x \in DOMAIN @ \ {c} |-> @[x]]]
    /\ calls' = [calls EXCEPT ![c] = "failed"]
    /\ UNCHANGED <<page, conn, left>>

(* Mutant: the clock of a command runs while its socket is there.          *)
CommandTimeoutOnline(c) ==
    /\ c \in Commands /\ calls[c] = "sent" /\ conn[hub.commands[c]].hub = "open"
    /\ calls' = [calls EXCEPT ![c] = "timeout"]
    /\ hub' = [hub EXCEPT !.commands = [x \in DOMAIN @ \ {c} |-> @[x]]]
    /\ UNCHANGED <<page, conn, left>>

CommandTimeout(c) ==
    /\ c \in Commands /\ calls[c] = "sent"
    /\ calls' = [calls EXCEPT ![c] = "timeout"]
    /\ hub' = [hub EXCEPT !.commands = [x \in DOMAIN @ \ {c} |-> @[x]]]
    /\ UNCHANGED <<page, conn, left>>

-----------------------------------------------------------------------------
(* A connection is lost: both sides will see it closed.                    *)
Drop(s) ==
    /\ Event /\ conn[s].hub = "open"
    /\ conn' = [conn EXCEPT ![s].hub = "closing", ![s].up = <<>>,
                            ![s].down = IF page.sock = s THEN <<Close>> ELSE <<>>]
    /\ UNCHANGED <<page, hub, calls>>

Empty == [up |-> TRUE, registered |-> 0, commands |-> <<>>, posted |-> <<>>, active |-> 0, running |-> {}]

HubStops ==
    /\ hub.up /\ Event
    /\ hub' = [Empty EXCEPT !.up = FALSE]
    /\ conn' = [s \in Sockets |->
                  IF conn[s].hub \in {"open", "closing"}
                    THEN IF page.sock = s THEN [Unused EXCEPT !.hub = "closed", !.down = <<Close>>] ELSE Unused
                    ELSE [conn[s] EXCEPT !.pending = 0]]
    /\ calls' = [x \in DOMAIN calls |->
                   IF x \in DOMAIN hub.commands \cup DOMAIN hub.posted THEN "disconnected" ELSE calls[x]]
    /\ UNCHANGED page

HubStarts == ~hub.up /\ hub' = Empty /\ UNCHANGED <<page, conn, calls, left>>

-----------------------------------------------------------------------------
Init ==
    /\ page = [sock |-> 0, session |-> 0, due |-> TRUE, tries |-> 0, gaveUp |-> FALSE,
               paused |-> FALSE, hidden |-> FALSE, inbound |-> {}, pending |-> {}]
    /\ conn = [s \in Sockets |-> Unused]
    /\ hub = Empty
    /\ \E run \in Runs :
         /\ calls = [x \in Commands \cup Requests |-> IF x \in run.calls THEN "new" ELSE "unused"]
         /\ left = run.events

PageStep ==
    \/ Connect
    \/ \E s \in Sockets :
         UpgradeFails(s) \/ PageLosesSocket(s) \/ Welcome(s) \/ RunCommand(s) \/ ReceiveResult(s)
    \/ \E r \in Requests : Send(r)

HubStep ==
    \/ \E s \in Sockets :
         \/ Upgrade(s) \/ HearHello(s) \/ HearResult(s) \/ HearRequest(s) \/ Closed(s)
         \/ \E r \in Requests : HandlerEnds(r, s)
    \/ \E c \in Commands : SendCommand(c) \/ RefuseCommand(c)

Timers ==
    \/ \E c \in Commands : CommandTimeout(c)
    \/ \E r \in Requests : RequestTimeout(r)

Environment ==
    \/ Uses \/ HubStops
    \/ \E r \in Requests : Ask(r)
    \/ \E c \in Commands : Post(c) \/ CommandEnds(c)
    \/ \E s \in Sockets : UpgradeRefused(s) \/ HelloTimeout(s) \/ Drop(s)

Next == PageStep \/ HubStep \/ HubStarts \/ Timers \/ Environment

Spec == Init /\ [][Next]_vars

(* Both programs handle what arrives and their timers run out; the Hub is  *)
(* started again.  A command in the page may never end.                    *)
Fairness ==
    /\ WF_vars(PageStep) /\ WF_vars(HubStep) /\ WF_vars(HubStarts) /\ WF_vars(Timers)

-----------------------------------------------------------------------------
Answered(x) == calls[x] \in Answers \cup {"unused", "new"}

(* Whatever becomes of the sockets, of the page and of the Hub, everything *)
(* that was sent or asked is answered (page_control.call waits for it).    *)
EveryCallIsAnswered == []<>(\A x \in Commands \cup Requests : Answered(x))

(* However the sockets of a page are replaced, and in whatever order the   *)
(* Hub hears of them, a page that wants to be connected ends up with the   *)
(* socket the Hub knows it by, unless it has given up.                     *)
Linked == hub.up /\ Ready /\ hub.registered = page.sock
Reachable == Linked \/ Idle \/ page.gaveUp

StaysReachable == <>[]Reachable
=============================================================================
