---------------------------- MODULE PolicyReload ----------------------------
(***************************************************************************)
(* `tap capture reload' (capture_policy.py) and the thread of the proxy    *)
(* that it hands a retention policy to (PolicyWatcher, capture.py).  They  *)
(* share a file each: the command replaces the document, the proxy writes  *)
(* what it is doing into its health record, now and then.                  *)
(*                                                                         *)
(* A policy is its revision.  A document is its revision and a number that *)
(* stands for its signature: each write makes a new one.                   *)
(***************************************************************************)
EXTENDS Naturals

CONSTANTS None, Revisions,
          Unacceptable,  \* revisions this proxy does not accept
          Reloads,       \* commands that may be run
          MaxEdits, MaxStops, MaxFaults

(* files: the policy the profile asks for, the one the proxy was started   *)
(* with (plist), the document, the health record and how many documents    *)
(* there have been.  proxy: the limits in force, the policy status, the    *)
(* signature seen and the one found by a check that is at work.            *)
VARIABLES files, proxy, reloads, claim, used

vars == <<files, proxy, reloads, claim, used>>

Spends(what, bound) == used[what] < bound /\ used' = [used EXCEPT ![what] = @ + 1]

-----------------------------------------------------------------------------
(* The proxy.                                                              *)

Startup(revision) == [revision |-> revision, source |-> "startup", rejected |-> None]

(* The writer's report of its health; what the record says is the proxy's  *)
(* own process.                                                            *)
Report ==
    /\ files.health # proxy.status
    /\ files' = [files EXCEPT !.health = proxy.status]
    /\ UNCHANGED <<proxy, reloads, claim, used>>

(* check(): the signature, then the document, which may be a later one.    *)
Found(f) == IF f.document = None THEN 0 ELSE f.document.number

Look ==
    /\ proxy.found = 0 /\ Found(files) \notin {0, proxy.seen}
    /\ proxy' = [proxy EXCEPT !.found = Found(files)]
    /\ UNCHANGED <<files, reloads, claim, used>>

(* apply_policy_document over the limits of the proxy.                     *)
Acceptable(revision) == revision \notin Unacceptable

Apply ==
    /\ proxy.found # 0 /\ files.document # None
    /\ LET r == files.document.revision
           read == [proxy EXCEPT !.found = 0, !.seen = proxy.found]
       IN  proxy' = IF Acceptable(r)
                    THEN [read EXCEPT !.limits = r,
                            !.status = [revision |-> r, source |-> "reload", rejected |-> None]]
                    ELSE [read EXCEPT !.status.rejected = r]
    /\ UNCHANGED <<files, reloads, claim, used>>

(* Mutant: what could not be read counts as seen.                          *)
UnreadSeen ==
    /\ proxy.found # 0 /\ Spends("faults", MaxFaults)
    /\ proxy' = [proxy EXCEPT !.found = 0, !.seen = proxy.found]
    /\ UNCHANGED <<files, reloads, claim>>

(* The document cannot be read: the next check will look again.            *)
Unread ==
    /\ proxy.found # 0 /\ Spends("faults", MaxFaults)
    /\ proxy' = [proxy EXCEPT !.found = 0]
    /\ UNCHANGED <<files, reloads, claim>>

(* launchd starts it again, with the limits of its plist and the document  *)
(* that is there.                                                          *)
Running(revision) == [limits |-> revision, status |-> Startup(revision), seen |-> 0, found |-> 0]

Restart ==
    /\ Spends("restarts", MaxStops)
    /\ proxy' = Running(files.plist)
    /\ files' = [files EXCEPT !.health = None]
    /\ UNCHANGED <<reloads, claim>>

(* `tap off' and `tap on': no document, and the profile is the authority.  *)
TurnOn ==
    /\ Spends("restarts", MaxStops)
    /\ files' = [files EXCEPT !.plist = files.profile, !.document = None, !.health = None]
    /\ proxy' = Running(files.profile)
    /\ claim' = None
    /\ UNCHANGED reloads

-----------------------------------------------------------------------------
(* The command.                                                            *)

Edit ==
    /\ Spends("edits", MaxEdits)
    /\ \E r \in Revisions \ {files.profile} : files' = [files EXCEPT !.profile = r]
    /\ UNCHANGED <<proxy, reloads, claim>>

(* Under the profile lease: the policy is computed, the health record is   *)
(* looked at, and the document is written, unless that policy is the one   *)
(* that is reported.                                                       *)
Unchanged == files.health # None /\ files.health.revision = files.profile /\ files.health.rejected = None

ReloadNothing(x) ==
    /\ reloads[x] = None /\ Unchanged
    /\ reloads' = [reloads EXCEPT ![x] = "done"]
    /\ claim' = files.profile
    /\ UNCHANGED <<files, proxy, used>>

Reload(x) ==
    /\ reloads[x] = None /\ ~Unchanged
    /\ reloads' = [reloads EXCEPT ![x] = files.profile]
    /\ files' = [files EXCEPT !.document = [revision |-> files.profile, number |-> files.last + 1],
                              !.last = @ + 1]
    /\ claim' = None
    /\ UNCHANGED <<proxy, used>>

(* It waits, without the lease, for an answer in the health record.        *)
Ends(x) == reloads' = [reloads EXCEPT ![x] = "done"]

Acknowledged(x) ==
    /\ reloads[x] \in Revisions /\ files.health # None
    /\ files.health.revision = reloads[x] /\ files.health.source = "reload"
    /\ Ends(x) /\ claim' = reloads[x]
    /\ UNCHANGED <<files, proxy, used>>

Rejected(x) ==
    /\ reloads[x] \in Revisions /\ files.health # None
    /\ files.health.revision # reloads[x] /\ files.health.rejected = reloads[x]
    /\ Ends(x) /\ UNCHANGED <<files, proxy, claim, used>>

(* Five seconds.                                                           *)
TimesOut(x) ==
    /\ reloads[x] \in Revisions
    /\ Ends(x) /\ UNCHANGED <<files, proxy, claim, used>>

-----------------------------------------------------------------------------
Init ==
    /\ \E r \in Revisions \ Unacceptable :
         /\ files = [profile |-> r, plist |-> r, document |-> None, health |-> Startup(r), last |-> 0]
         /\ proxy = Running(r)
    /\ reloads = [x \in Reloads |-> None]
    /\ claim = None
    /\ used = [edits |-> 0, restarts |-> 0, faults |-> 0]

Watcher == Look \/ Apply \/ Unread

Next ==
    \/ Report \/ Watcher \/ Restart \/ TurnOn \/ Edit
    \/ \E x \in Reloads : ReloadNothing(x) \/ Reload(x) \/ Acknowledged(x) \/ Rejected(x) \/ TimesOut(x)

Spec == Init /\ [][Next]_vars

(* The threads of the proxy go on.                                         *)
Fairness == WF_vars(Report) /\ WF_vars(Watcher)

-----------------------------------------------------------------------------
(* A document that is on the disk, and that the proxy accepts, ends up in  *)
(* force, also when it replaced another one while that was being read, or  *)
(* could not be read at first, or the proxy was started again; and without *)
(* a document the profile's policy of the last start is.                   *)
InForce(r) == proxy.limits = r /\ files.health = proxy.status

DocumentInForce ==
    CASE files.document = None -> proxy.limits = files.plist
      [] files.document # None /\ files.document.revision \notin Unacceptable ->
           InForce(files.document.revision)
      [] OTHER -> TRUE

DocumentComesIntoForce == <>[]DocumentInForce

(* "capture reload applies the effective allowlists [...] to the running   *)
(* proxy" (docs/capture-records.md): once the last command has said that a *)
(* revision is applied, and the proxy has no document to look at, it is in *)
(* force.                                                                  *)
AppliedStands ==
    claim # None /\ proxy.found = 0 /\ proxy.seen = Found(files) => proxy.limits = claim
=============================================================================
