------------------------------ MODULE HostClaim ------------------------------
(***************************************************************************)
(* One claim of files (claim.c, claim_posix.c): every name in the ready    *)
(* directory is listed first, then file after file is renamed into the     *)
(* processing directory.  camctl publishes, replaces and withdraws files   *)
(* meanwhile, and either directory may be replaced or closed to the host.  *)
(* camctl_host_claim holds claim_mutex throughout, so one call runs at a   *)
(* time.  The calls that fail are counted; the error numbers are told      *)
(* apart only as far as the code does.                                     *)
(***************************************************************************)
EXTENDS Integers, Sequences, FiniteSets, Functions

CONSTANTS Names,        \* the names a file may have
          ListLimit,    \* how many names fit in list_limit bytes
          MaxChanges,   \* bound on what camctl and others do to the directories
          MaxFaults     \* bound on failed calls

ASSUME LimitAssumption == ListLimit \in Nat

VARIABLES ready,        \* what is at each name of the ready directory
          dirs,         \* the opened directories: ok, stale (the path leads
                        \* elsewhere now), denied
          at,           \* where the call is
          names,        \* the listed names still to move, first in front
          moved,        \* the local `moved`
          told,         \* diagnose: pairs of event and name
          must, may,    \* what readdir has to and can return
          taken,        \* names really moved by this call
          strays,       \* those of them moved when the paths led elsewhere
          durable,      \* those whose directories were flushed since
          changes, faults

call == <<names, moved, told, taken, strays, durable>>
listing == <<must, may>>
claimVars == <<ready, dirs, at, names, moved, told, must, may, taken, strays, durable, changes, faults>>

Present(r) == {n \in Names : r[n] # "none"}
Nobody == [n \in Names |-> "none"]
Name == Head(names)

ClaimInit ==
  /\ ready = Nobody /\ dirs = "ok" /\ at = "idle"
  /\ names = <<>> /\ moved = FALSE /\ told = {} /\ must = {} /\ may = {}
  /\ taken = {} /\ strays = {} /\ durable = {} /\ changes = 0 /\ faults = 0

Fault == faults < MaxFaults /\ faults' = faults + 1
NoFault == faults' = faults
diagnose(event, name) == told' = told \union {<<event, name>>}

------------------------------------------------------------------------------
\* Both directories are opened, whichever the paths lead to now.
begin ==
  /\ at = "idle" /\ names' = <<>> /\ moved' = FALSE /\ taken' = {} /\ strays' = {} /\ durable' = {}
  /\ \/ /\ dirs # "denied" /\ NoFault /\ dirs' = "ok" /\ at' = "list" /\ told' = {}
        /\ ready' \in IF dirs = "stale" THEN {ready, Nobody} ELSE {ready}
        /\ must' = Present(ready') /\ may' = Present(ready')
     \/ /\ IF dirs = "denied" THEN NoFault ELSE Fault
        /\ told' = {<<"directories", "">>} /\ must' = {} /\ may' = {}
        /\ UNCHANGED <<at, dirs, ready>>
  /\ UNCHANGED changes

\* A name that came or went since the directory was opened may be returned or not.
SlipKeepPartialList(event, name) == at' = "check" /\ diagnose(event, name) /\ names' = names
GiveUp(event, name) == at' = "idle" /\ diagnose(event, name) /\ names' = names
AddToList(n) ==
  IF Len(names) < ListLimit
  THEN names' = Append(names, n) /\ UNCHANGED <<at, told>>
  ELSE GiveUp("list_limit", n)
next ==
  /\ at = "list"
  /\ \/ \E n \in may \ Range(names) :
          \/ NoFault /\ AddToList(n)
          \/ Fault /\ GiveUp("list_allocate", n)
     \/ must \subseteq Range(names) /\ NoFault /\ at' = "finish" /\ UNCHANGED <<names, told>>
     \/ Fault /\ GiveUp("enumerate", "")
  /\ UNCHANGED <<ready, dirs, moved, listing, taken, strays, durable, changes>>

finish_listing ==
  /\ at = "finish"
  /\ \/ NoFault /\ at' = "check" /\ UNCHANGED <<names, told>>
     \/ Fault /\ GiveUp("enumerate_close", "")
  /\ UNCHANGED <<ready, dirs, moved, listing, taken, strays, durable, changes>>

\* Do the paths still lead to the opened directories, and may the host use them?
SlipTrustsFirstCheck ==
  /\ at = "check"
  /\ IF names = <<>> THEN at' = "sync" /\ told' = told
     ELSE IF dirs = "ok" \/ taken # {} THEN at' = "stat" /\ told' = told
     ELSE at' = "sync" /\ diagnose("directories", Name)
  /\ UNCHANGED <<ready, dirs, names, moved, listing, taken, strays, durable, changes, faults>>
healthy ==
  /\ at = "check"
  /\ IF names = <<>> THEN at' = "sync" /\ told' = told
     ELSE IF dirs = "ok" THEN at' = "stat" /\ told' = told
     ELSE at' = "sync" /\ diagnose("directories", Name)
  /\ UNCHANGED <<ready, dirs, names, moved, listing, taken, strays, durable, changes, faults>>

\* The file is not moved as far as the code knows.
NotMoved(event) == at' = "recheck" /\ diagnose(event, Name) /\ UNCHANGED <<names, moved>>
MovesTo(r) ==
  /\ ready' = r /\ taken' = taken \union {Name}
  /\ strays' = IF dirs = "stale" THEN strays \union {Name} ELSE strays

fstatat ==
  /\ at = "stat"
  /\ \/ ready[Name] = "file" /\ NoFault /\ at' = "rename" /\ UNCHANGED <<names, moved, told>>
     \/ ready[Name] # "file" /\ NoFault /\ NotMoved("move_failed")
     \/ dirs = "denied" /\ NoFault /\ NotMoved("move_failed")
     \/ \E event \in {"move_failed", "move_unknown"} : Fault /\ NotMoved(event)
  /\ UNCHANGED <<ready, dirs, listing, taken, strays, durable, changes>>

\* EIO and EINTR leave open whether the file was moved.
SlipCertain(event) == NotMoved("move_failed")
Unclear(event) == NotMoved(event)
renameat ==
  /\ at = "rename"
  /\ \/ /\ ready[Name] # "none" /\ dirs # "denied" /\ NoFault
        /\ MovesTo([ready EXCEPT ![Name] = "none"])
        /\ moved' = TRUE /\ diagnose("moved", Name) /\ names' = Tail(names) /\ at' = "check"
     \/ /\ IF ready[Name] = "none" \/ dirs = "denied" THEN NoFault ELSE Fault
        /\ NotMoved("move_failed") /\ UNCHANGED <<ready, taken, strays>>
     \/ /\ Fault /\ Unclear("move_unknown")
        /\ \/ UNCHANGED <<ready, taken, strays>>
           \/ ready[Name] # "none" /\ MovesTo([ready EXCEPT ![Name] = "none"])
  /\ UNCHANGED <<dirs, listing, durable, changes>>

\* After a failure the directories are looked at again, to tell a fault of the
\* whole claim from one of the file.
SlipStopAtFailure ==
  /\ at = "recheck"
  /\ at' = "sync" /\ UNCHANGED <<names, told>>
  /\ UNCHANGED <<ready, dirs, moved, listing, taken, strays, durable, changes, faults>>
recheck ==
  /\ at = "recheck"
  /\ IF dirs = "ok" THEN at' = "check" /\ names' = Tail(names) /\ told' = told
     ELSE at' = "sync" /\ diagnose("directories", Name) /\ names' = names
  /\ UNCHANGED <<ready, dirs, moved, listing, taken, strays, durable, changes, faults>>

SlipSyncOnlyWhole ==
  /\ at = "sync" /\ at' = "idle"
  /\ IF moved /\ names = <<>>
     THEN \/ NoFault /\ durable' = taken /\ told' = told
          \/ Fault /\ durable' = durable /\ diagnose("directory_sync_unknown", "")
     ELSE NoFault /\ UNCHANGED <<durable, told>>
  /\ UNCHANGED <<ready, dirs, names, moved, listing, taken, strays, changes>>
sync ==
  /\ at = "sync" /\ at' = "idle"
  /\ IF moved
     THEN \/ NoFault /\ durable' = taken /\ told' = told
          \/ Fault /\ durable' = durable /\ diagnose("directory_sync_unknown", "")
     ELSE NoFault /\ UNCHANGED <<durable, told>>
  /\ UNCHANGED <<ready, dirs, names, moved, listing, taken, strays, changes>>

------------------------------------------------------------------------------
(* camctl, and whoever else uses the file system. *)

Change == changes < MaxChanges /\ changes' = changes + 1

\* A published or replaced file, an object that is none, or nothing any more.
PutFile(n, what) ==
  /\ Change /\ ready[n] # what /\ ready' = [ready EXCEPT ![n] = what]
  /\ IF at = "list"
     THEN must' = must \ {n} /\ may' = IF what = "none" THEN may ELSE may \union {n}
     ELSE UNCHANGED listing
  /\ UNCHANGED <<dirs, at, call, faults>>

Turn(how) ==
  /\ Change /\ dirs' = how
  /\ \/ dirs = "ok" /\ how = "stale" /\ at # "idle"
     \/ dirs = "ok" /\ how = "denied"
     \/ dirs = "denied" /\ how = "ok"
  /\ UNCHANGED <<ready, at, call, listing, faults>>

Claim ==
  begin \/ next \/ finish_listing \/ healthy \/ fstatat \/ renameat \/ recheck \/ sync
ClaimNext ==
  \/ Claim
  \/ \E n \in Names, what \in {"none", "file", "other"} : PutFile(n, what)
  \/ \E how \in {"ok", "stale", "denied"} : Turn(how)
ClaimSpec == ClaimInit /\ [][ClaimNext]_claimVars

------------------------------------------------------------------------------
\* The diagnoses tell what became of every file: one called moved was moved,
\* one called failed was not, and none is moved without a word (claim.c:54-59).
ToldTruly ==
  \A n \in Names :
    /\ <<"moved", n>> \in told => n \in taken
    /\ <<"move_failed", n>> \in told => n \notin taken
    /\ n \in taken => {<<"moved", n>>, <<"move_unknown", n>>} \intersect told # {}

Unlisted == {"enumerate", "list_limit", "list_allocate", "enumerate_close"}
Events == {d[1] : d \in told}

\* Once the paths lead elsewhere, at most the one file whose check had passed
\* is still moved into a directory the program no longer looks at.
StraysBounded == Cardinality(strays) <= 1

\* All or nothing for the list, one by one for the files: an incomplete list
\* moves nothing, and after a complete one a file that cannot be moved does not
\* keep the others back: unless a directory failed, each file there from beginning
\* to end of the listing was tried and has its diagnosis (docs/host-demo/design.md:268).
WholeListTried ==
  /\ Events \intersect Unlisted # {} => taken = {}
  /\ (at = "idle" /\ Events \intersect (Unlisted \union {"directories"}) = {}) =>
       \A n \in must : \E d \in told : d[2] = n

\* Whatever was moved is flushed when the call returns, also when it stopped
\* half way, unless a diagnosis says that this is not known.
MovedIsSynced ==
  (at = "idle" /\ "directory_sync_unknown" \notin Events) =>
    \A n \in taken : n \in durable \/ <<"move_unknown", n>> \in told
==============================================================================
