----------------------------- MODULE MCJournal -----------------------------
(***************************************************************************)
(* A small instance of the way of a response into the journal and out of   *)
(* it.  A behaviour is one of one part: a response until it is a line      *)
(* (CaptureHooks), the thread that writes lines (CaptureWriter), or one    *)
(* scan of the files while they are written (JournalScan).                 *)
(***************************************************************************)
EXTENDS MCCaptureWriter

CONSTANTS Parts, Keeps, MaxScanLines, MaxStamp, MaxBody, MaxRecord, Lengths, Escaped

VARIABLES part, files, scan, lines, limits, flow, record

scanVars == <<files, scan, lines>>
hookVars == <<limits, flow, record>>

Scan  == INSTANCE JournalScan WITH MaxLines <- MaxScanLines, disk <- files, confirmed <- lines
Hooks == INSTANCE CaptureHooks

(* The other parts of a behaviour stay in one of their initial states.     *)
Unread    == files.keep = 0
Unwatched == ~limits.binary /\ ~limits.request /\ flow.type = "text" /\ flow.declared = 0 /\ ~flow.stream
                 /\ flow.utf8

JournalInit ==
    /\ part \in Parts /\ Init /\ Scan!Init /\ Hooks!Init
    /\ part # "scan" => Unread
    /\ part # "hooks" => Unwatched

(* A scan that is over and a line that is written have no next step.       *)
Over == (part = "scan" /\ Scan!Over) \/ (part = "hooks" /\ flow.at \in {"written", "dropped", "refused"})

JournalNext ==
    \/ part = "writer" /\ Next /\ UNCHANGED <<part, scanVars, hookVars>>
    \/ part = "scan" /\ Scan!Next /\ UNCHANGED <<part, vars, hookVars>>
    \/ part = "hooks" /\ Hooks!Next /\ UNCHANGED <<part, vars, scanVars>>
    \/ Over /\ UNCHANGED <<part, vars, scanVars, hookVars>>

JournalSpec ==
    JournalInit /\ [][JournalNext]_<<part, vars, scanVars, hookVars>> /\ WF_vars(Closer)

ScanLeavesNothingOut == part = "scan" => Scan!ScanLeavesNothingOut
RecordsAreReadable   == part = "hooks" => Hooks!RecordsAreReadable
NoBodyCostsTheLine   == part = "hooks" => Hooks!NoBodyCostsTheLine
=============================================================================
