------------------------------ MODULE SessionStore ------------------------------
(***************************************************************************)
(* The directories in which server processes keep the storage of their     *)
(* Path Session: crates/resourcefs-sources/src/session_storage.rs and the  *)
(* life of a server in crates/resourcefs-mcp/src/server.rs (serve_inner).  *)
(*                                                                         *)
(* Every process has one directory, under a random token nobody else uses, *)
(* so a directory is named here by its owner.  A process first collects    *)
(* what earlier ones left (cleanup_sessions), then makes its own directory *)
(* and serves; the operating system's lock on the lease file tells the     *)
(* others that it lives, and the modification times of two marker files    *)
(* tell them how long it has been dead.  A process may crash at any step,  *)
(* which gives up its locks and nothing else.                              *)
(*                                                                         *)
(* One step of a process is one call to the file system, or a few between  *)
(* which no other process can tell a difference.                           *)
(***************************************************************************)
EXTENDS Naturals

CONSTANTS
    Process,
    Ttl,      \* process -> its session.retentionTtlSeconds
    MaxTime,  \* bound: the clock stops there
    None

ASSUME TtlAssumption == Ttl \in [Process -> Nat]

ASSUME NoneAssumption == None \notin Process

ASSUME TimeAssumption == MaxTime \in Nat

VARIABLES
    clock,
    pc,      \* process -> what it is doing
    began,   \* process -> when its cleanup_sessions began
    todo,    \* process -> the directories its cleanup has yet to visit
    hand,    \* process -> the directory its cleanup is at, or None
    at,      \* process -> how far it got with that directory
    files,   \* owner -> the entries of its directory, "dir" for itself
    stamp,   \* owner -> when its markers were last written, 0 for never
    holder,  \* owner -> the process that has its lease file locked, or None
    writing, \* process -> a call of SessionStorage is inside begin_io
    closed,  \* process -> DiskSessionStorage.closed
    told     \* process -> DisconnectState.result

scan == <<began, todo, hand, at>>

vars == <<clock, pc, scan, files, stamp, holder, writing, closed, told>>

Marker == {"live", "disconnected"}

Entry == {"dir", "objects", "lease"} \cup Marker

\* From the last step of create_session on.
Serving == {"serve", "drain", "finish", "release"}

Phase == {"off", "scan", "make", "lease", "lock", "mark", "undo", "purge", "ended"}
           \cup Serving

\* How far a cleanup is: it looks for a directory, asks for the lease, looks
\* for one marker, then the other, takes the age by the marker it found, and
\* removes.
Steps == {"pick", "lock", "first", "second", "remove"} \cup Marker

Init ==
    /\ clock = 1
    /\ pc = [p \in Process |-> "off"]
    /\ began = [p \in Process |-> 0]
    /\ todo = [p \in Process |-> {}]
    /\ hand = [p \in Process |-> None]
    /\ at = [p \in Process |-> "pick"]
    /\ files = [p \in Process |-> {}]
    /\ stamp = [p \in Process |-> [m \in Marker |-> 0]]
    /\ holder = [p \in Process |-> None]
    /\ writing = [p \in Process |-> FALSE]
    /\ closed = [p \in Process |-> FALSE]
    /\ told = [p \in Process |-> "unset"]

----------------------------------------------------------------------------
\* What the steps are made of.

Goto(p, phase) == pc' = [pc EXCEPT ![p] = phase]

Locked(d, p) == holder' = [holder EXCEPT ![d] = p]

\* The process is gone, and with it its locks and its calls in flight.
End(p) ==
    /\ Goto(p, "ended")
    /\ holder' = [d \in Process |-> IF holder[d] = p THEN None ELSE holder[d]]
    /\ writing' = [writing EXCEPT ![p] = FALSE]
    /\ UNCHANGED <<clock, scan, closed, told>>

\* write_marker_sync: opening creates or truncates, so the modification time
\* moves whatever happens next.
Touch(p, m) ==
    /\ files' = [files EXCEPT ![p] = @ \cup {m}]
    /\ stamp' = [stamp EXCEPT ![p][m] = clock]

\* A marker that could not be written may still have been opened.
TouchFailed(p, m) == Touch(p, m) \/ UNCHANGED <<files, stamp>>

----------------------------------------------------------------------------
\* cleanup_sessions, at the start of a server.

Start(p) ==
    /\ pc[p] = "off"
    /\ Goto(p, "scan")
    /\ began' = [began EXCEPT ![p] = clock]
    /\ todo' = [todo EXCEPT ![p] = {d \in Process : "dir" \in files[d]}]
    /\ UNCHANGED <<clock, hand, at, files, stamp, holder, writing, closed, told>>

At(c, step) == pc[c] = "scan" /\ at[c] = step

Advance(c, step) == at' = [at EXCEPT ![c] = step] /\ UNCHANGED <<began, todo, hand>>

\* On to the next entry.
Leave(c) ==
    /\ todo' = [todo EXCEPT ![c] = @ \ {hand[c]}]
    /\ hand' = [hand EXCEPT ![c] = None]
    /\ at' = [at EXCEPT ![c] = "pick"]
    /\ UNCHANGED began

\* A directory without a lease file is passed over.
Pick(c, d) ==
    /\ At(c, "pick") /\ d \in todo[c]
    /\ IF "lease" \in files[d]
       THEN hand' = [hand EXCEPT ![c] = d] /\ at' = [at EXCEPT ![c] = "lock"]
            /\ UNCHANGED todo
       ELSE todo' = [todo EXCEPT ![c] = @ \ {d}] /\ UNCHANGED <<hand, at>>
    /\ UNCHANGED <<clock, pc, began, files, stamp, holder, writing, closed, told>>

\* Mutant: the answer of the lock is not looked at.
TryAcquireBlindly(c) ==
    /\ At(c, "lock") /\ "lease" \in files[hand[c]]
    /\ Advance(c, "first")
    /\ UNCHANGED <<clock, pc, files, stamp, holder, writing, closed, told>>

\* Somebody else's lock means the session is live.
TryAcquire(c) ==
    /\ At(c, "lock") /\ "lease" \in files[hand[c]]
    /\ IF holder[hand[c]] = None
       THEN Locked(hand[c], c) /\ Advance(c, "first")
       ELSE Leave(c) /\ UNCHANGED holder
    /\ UNCHANGED <<clock, pc, files, stamp, writing, closed, told>>

\* Another process removed the lease file, or the marker, since it was seen:
\* the open fails, and the server with it.
Vanished(c) ==
    /\ \/ At(c, "lock") /\ "lease" \notin files[hand[c]]
       \/ \E m \in Marker : At(c, m) /\ m \notin files[hand[c]]
    /\ End(c) /\ UNCHANGED <<files, stamp>>

Unlock(d) == Locked(d, None)

\* The marker of the disconnect where there is one, that of the heartbeat
\* otherwise; a directory without either counts as fresh.
ChooseMarker(c) ==
    /\ pc[c] = "scan"
    /\ LET d == hand[c] IN
       \/ /\ at[c] = "first" /\ UNCHANGED holder
          /\ Advance(c, IF "disconnected" \in files[d] THEN "disconnected" ELSE "second")
       \/ /\ at[c] = "second"
          /\ IF "live" \in files[d]
             THEN Advance(c, "live") /\ UNCHANGED holder
             ELSE Leave(c) /\ Unlock(d)
    /\ UNCHANGED <<clock, pc, files, stamp, writing, closed, told>>

\* The age is taken at the time the cleanup began, and is never negative.
\* The lease is given up before the directory is removed.
Judge(c) ==
    /\ \E m \in Marker :
         /\ At(c, m) /\ m \in files[hand[c]]
         /\ IF stamp[hand[c]][m] + Ttl[c] <= began[c] \/ Ttl[c] = 0
            THEN Advance(c, "remove")
            ELSE Leave(c)
    /\ Unlock(hand[c])
    /\ UNCHANGED <<clock, pc, files, stamp, writing, closed, told>>

Scanned(c) ==
    /\ At(c, "pick") /\ todo[c] = {}
    /\ Goto(c, "make")
    /\ UNCHANGED <<clock, scan, files, stamp, holder, writing, closed, told>>

----------------------------------------------------------------------------
\* remove_dir_all: of an expired directory, of one whose creation failed, and
\* of one's own at the end when the retention is zero.  Entries go one by one,
\* in any order, and one that another process removed first is no error.

Removing(r, d) ==
    \/ pc[r] \in {"undo", "purge"} /\ d = r
    \/ At(r, "remove") /\ d = hand[r]

RemoveEntry(r, d) ==
    /\ Removing(r, d)
    /\ \E e \in files[d] \ {"dir"} : files' = [files EXCEPT ![d] = @ \ {e}]
    /\ UNCHANGED <<clock, pc, scan, stamp, holder, writing, closed, told>>

RemoveLast(r, d) ==
    /\ Removing(r, d) /\ files[d] \subseteq {"dir"}
    /\ files' = [files EXCEPT ![d] = {}]
    /\ IF pc[r] = "scan"
       THEN /\ Leave(r)
            /\ UNCHANGED <<clock, pc, stamp, holder, writing, closed, told>>
       ELSE End(r) /\ UNCHANGED stamp

\* Any other failure of cleanup or of a removal ends the process.
Fail(p) ==
    /\ pc[p] \in {"scan", "make", "undo", "purge"}
    /\ End(p) /\ UNCHANGED <<files, stamp>>

----------------------------------------------------------------------------
\* DiskSessionStorage::create.

MakeDirectories(p) ==
    /\ pc[p] = "make"
    /\ Goto(p, "lease")
    /\ files' = [files EXCEPT ![p] = {"dir", "objects"}]
    /\ UNCHANGED <<clock, scan, stamp, holder, writing, closed, told>>

MakeLease(p) ==
    /\ pc[p] = "lease"
    /\ Goto(p, "lock")
    /\ files' = [files EXCEPT ![p] = @ \cup {"lease"}]
    /\ UNCHANGED <<clock, scan, stamp, holder, writing, closed, told>>

\* The lease is asked for once: a cleanup that got there first fails the
\* creation.
LockLease(p) ==
    /\ pc[p] = "lock"
    /\ IF holder[p] = None
       THEN Goto(p, "mark") /\ Locked(p, p)
       ELSE Goto(p, "undo") /\ UNCHANGED holder
    /\ UNCHANGED <<clock, scan, files, stamp, writing, closed, told>>

MarkLive(p) ==
    /\ pc[p] = "mark"
    /\ Goto(p, "serve") /\ Touch(p, "live")
    /\ UNCHANGED <<clock, scan, holder, writing, closed, told>>

\* The lease goes before the directory does.
CreateFails(p) ==
    /\ \/ pc[p] \in {"lease", "lock"} /\ UNCHANGED <<files, stamp, holder>>
       \/ pc[p] = "mark" /\ TouchFailed(p, "live") /\ Locked(p, None)
    /\ Goto(p, "undo")
    /\ UNCHANGED <<clock, scan, writing, closed, told>>

----------------------------------------------------------------------------
\* A session in use.

\* A heartbeat that fails stops the service.
Heartbeat(p) ==
    /\ pc[p] \in {"serve", "drain"}
    /\ \/ Touch(p, "live") /\ UNCHANGED pc
       \/ TouchFailed(p, "live") /\ Goto(p, "finish")
    /\ UNCHANGED <<clock, scan, holder, writing, closed, told>>

\* Mutant: calls go past a finish_disconnect that waits.
BeginWritePassing(p) ==
    /\ pc[p] \in Serving \cup {"purge"} /\ ~writing[p] /\ ~closed[p]
    /\ writing' = [writing EXCEPT ![p] = TRUE]
    /\ UNCHANGED <<clock, pc, scan, files, stamp, holder, closed, told>>

\* begin_io of a read or a write of an object, by a handler that may outlive
\* the connection.  Behind a queued finish_disconnect there is no way in.
BeginWrite(p) ==
    /\ pc[p] \in {"serve", "drain", "finish", "purge"} /\ ~writing[p] /\ ~closed[p]
    /\ writing' = [writing EXCEPT ![p] = TRUE]
    /\ UNCHANGED <<clock, pc, scan, files, stamp, holder, closed, told>>

EndWrite(p) ==
    /\ writing[p]
    /\ writing' = [writing EXCEPT ![p] = FALSE]
    /\ UNCHANGED <<clock, pc, scan, files, stamp, holder, closed, told>>

\* SessionStorage::mark_disconnected.
MarkDisconnected(p, ok) ==
    IF ok THEN Touch(p, "disconnected") ELSE TouchFailed(p, "disconnected")

\* DisconnectState::disconnect, which runs once: at the end of the input, with
\* the heartbeat and the handlers going on, or at the latest in finish.
Disconnect(p) ==
    /\ pc[p] \in {"serve", "finish"} /\ told[p] = "unset"
    /\ \E ok \in BOOLEAN : /\ MarkDisconnected(p, ok)
                           /\ told' = [told EXCEPT ![p] = IF ok THEN "ok" ELSE "failed"]
    /\ Goto(p, IF pc[p] = "serve" THEN "drain" ELSE "finish")
    /\ UNCHANGED <<clock, scan, holder, writing, closed>>

\* The service is over, or never came up, and the heartbeat is stopped.
Stop(p) ==
    /\ pc[p] \in {"serve", "drain"}
    /\ Goto(p, "finish")
    /\ UNCHANGED <<clock, scan, files, stamp, holder, writing, closed, told>>

\* StoredSession::mark_disconnected writes the marker once more; after a marker
\* that could not be written the lease is kept until the process is gone.
Finish(p) ==
    /\ pc[p] = "finish" /\ told[p] # "unset"
    /\ \/ /\ told[p] = "ok" /\ MarkDisconnected(p, TRUE) /\ Goto(p, "release")
          /\ UNCHANGED <<clock, scan, holder, writing, closed, told>>
       \/ told[p] = "ok" /\ MarkDisconnected(p, FALSE) /\ End(p)
       \/ told[p] = "failed" /\ End(p) /\ UNCHANGED <<files, stamp>>

\* finish_disconnect: wait for the calls inside begin_io, refuse later ones,
\* give up the lease, and remove the directory if nothing is to be retained.
Release(p) ==
    /\ pc[p] = "release" /\ ~writing[p]
    /\ closed' = [closed EXCEPT ![p] = TRUE]
    /\ Locked(p, None)
    /\ Goto(p, IF Ttl[p] = 0 THEN "purge" ELSE "ended")
    /\ UNCHANGED <<clock, scan, files, stamp, writing, told>>

\* Also the early returns of serve_inner between the creation of the session
\* and the first message: they leave the files as a crash does.
Crash(p) ==
    /\ pc[p] \notin {"off", "ended"}
    /\ End(p) /\ UNCHANGED <<files, stamp>>

Tick ==
    /\ clock < MaxTime
    /\ clock' = clock + 1
    /\ UNCHANGED <<pc, scan, files, stamp, holder, writing, closed, told>>

Clean(c) ==
    \/ \E d \in Process : Pick(c, d) \/ RemoveEntry(c, d) \/ RemoveLast(c, d)
    \/ TryAcquire(c) \/ Vanished(c) \/ ChooseMarker(c) \/ Judge(c) \/ Scanned(c)

Create(p) == MakeDirectories(p) \/ MakeLease(p) \/ LockLease(p) \/ MarkLive(p)

\* What a server does on its own account.
Step(p) ==
    \/ Clean(p) \/ Create(p)
    \/ (pc[p] = "drain" /\ Stop(p)) \/ (pc[p] = "finish" /\ Disconnect(p))
    \/ Finish(p) \/ Release(p)

Next ==
    \/ Tick
    \/ \E p \in Process :
         \/ Start(p) \/ Clean(p) \/ Fail(p) \/ Create(p) \/ CreateFails(p)
         \/ Heartbeat(p) \/ BeginWrite(p) \/ EndWrite(p)
         \/ Disconnect(p) \/ Stop(p) \/ Finish(p) \/ Release(p) \/ Crash(p)

Spec == Init /\ [][Next]_vars

\* A server that has begun to start or to stop goes on with it, and a call of
\* the storage returns.  Nothing says when a session is disconnected.
Fairness == \A p \in Process : WF_vars(Step(p)) /\ WF_vars(EndWrite(p))

FairSpec == Spec /\ Fairness

----------------------------------------------------------------------------

\* The types, and that a cleanup has a directory in hand exactly while it is
\* occupied with one.
TypeOK ==
    /\ clock \in Nat
    /\ pc \in [Process -> Phase]
    /\ began \in [Process -> Nat]
    /\ todo \in [Process -> SUBSET Process]
    /\ hand \in [Process -> Process \cup {None}]
    /\ at \in [Process -> Steps]
    /\ files \in [Process -> SUBSET Entry]
    /\ stamp \in [Process -> [Marker -> Nat]]
    /\ holder \in [Process -> Process \cup {None}]
    /\ writing \in [Process -> BOOLEAN]
    /\ closed \in [Process -> BOOLEAN]
    /\ told \in [Process -> {"unset", "ok", "failed"}]
    /\ \A c \in Process : at[c] = "pick" <=> hand[c] = None

\* No cleanup of another process touches a session in use: its lease is its
\* own and its files are all there (cleanup_sessions decides under the lease,
\* and removes after giving it up).
LiveStorageKept ==
    \A p \in Process : pc[p] \in Serving =>
        /\ holder[p] = p
        /\ {"dir", "objects", "lease", "live"} \subseteq files[p]

\* A call of the storage that passed begin_io runs under the lease to its end,
\* also when it outlives the connection (DiskSessionStorage::begin_io against
\* finish_disconnect).
CallsUnderLease == \A p \in Process : writing[p] => holder[p] = p

\* The end of a session as its markers tell it.
LastSign(d) == IF stamp[d]["disconnected"] # 0 THEN stamp[d]["disconnected"]
               ELSE stamp[d]["live"]

\* Other processes begin to remove a session's storage only when it is over and
\* has been for the retention of one of them: of this one, or of one whose own
\* removal has taken the later marker away already (the owner's at its end
\* included).  What it goes by is read under a lease that is no longer held when
\* the removal starts.
RetentionHonoured ==
    \A c, d \in Process : At(c, "remove") /\ hand[c] = d =>
        /\ pc[d] \in {"undo", "purge", "ended"}
        /\ \E r \in Process : /\ pc[r] # "off" /\ (r = d => closed[d])
                              /\ LastSign(d) + Ttl[r] <= clock

\* No storage is taken from a session that is in use, or may be wanted still.
StorageKept == LiveStorageKept /\ CallsUnderLease /\ RetentionHonoured

\* Startup and shutdown end: a server that started serves or is gone, and one
\* that lost its connection is gone at last, whatever the calls in flight and
\* the cleanups of others.
StartsAndStops ==
    \A p \in Process :
        /\ pc[p] = "scan" ~> pc[p] \in Serving \cup {"ended"}
        /\ pc[p] = "drain" ~> pc[p] = "ended"

\* "Files remain only for configured TTL cleanup/diagnosis and are
\* garbage-collected on startup" (DESIGN.md): once a server that retains nothing
\* has done its cleanup, nothing is left of a process that was gone before it
\* started.
DeadStorageCollected ==
    \A c, d \in Process : Ttl[c] = 0 =>
        [](pc[d] = "ended" /\ pc[c] = "off" => [](pc[c] = "make" => files[d] = {}))

=============================================================================
