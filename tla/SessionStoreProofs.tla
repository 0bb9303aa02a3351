--------------------------- MODULE SessionStoreProofs ---------------------------
(***************************************************************************)
(* That cleanups leave the storage of live sessions alone, for every set of *)
(* servers and every retention.                                             *)
(*                                                                          *)
(* What a cleanup knows is old when it acts: it reads a marker, gives the   *)
(* lease up and only then removes.  So the invariant says what can be known *)
(* of a directory from how far a cleanup is with it: that its owner is past *)
(* creating it (Listed), that the lease of a session in use belongs to its  *)
(* owner, and the lease of one a cleanup decides about to that cleanup      *)
(* (Leases), and that what was decided to be overdue stays so although the  *)
(* markers go on to change (Chosen, OverdueKept).                           *)
(***************************************************************************)
EXTENDS SessionStore, TLAPS

\* The owner will not touch its markers again.
Over == {"undo", "purge", "ended"}

\* A cleanup that is there has the lease of the directory it has in hand.
Deciding == {"first", "second"} \cup Marker

\* The directories whose last sign is as old as a retention in force.
Overdue == {d \in Process : \E r \in Process : /\ pc[r] # "off" /\ (r = d => closed[d])
                                               /\ LastSign(d) + Ttl[r] <= clock}

\* A lease is its owner's, from its creation to its release, or that of the
\* cleanup deciding about it.
Leases ==
    /\ \A c, d \in Process : holder[d] = c =>
         IF c = d THEN pc[d] \in Serving \cup {"mark"}
         ELSE pc[c] = "scan" /\ at[c] \in Deciding /\ hand[c] = d
    /\ \A p \in Process : pc[p] \in Serving \cup {"mark"} => holder[p] = p
    /\ \A c \in Process : pc[c] = "scan" /\ at[c] \in Deciding => holder[hand[c]] = c

\* A cleanup is only about directories that were there.
Listed ==
    /\ \A p \in Process : pc[p] \in {"off", "scan", "make"} => files[p] = {}
    /\ \A c, d \in Process : d \in todo[c] \/ d = hand[c] =>
                               pc[d] \notin {"off", "scan", "make"}
    /\ \A c \in Process : pc[c] = "off" => hand[c] = None

\* What has been made of the directory of a process that is not over.
Made ==
    \A p \in Process :
        /\ pc[p] \in {"lease", "lock", "mark"} \cup Serving => {"dir", "objects"} \subseteq files[p]
        /\ pc[p] \in {"lock", "mark"} \cup Serving => "lease" \in files[p]
        /\ pc[p] \in Serving => "live" \in files[p]

\* Nothing is stamped in the future, and no marker is there unstamped.
Stamps ==
    /\ clock >= 1
    /\ \A d \in Process :
         /\ began[d] <= clock
         /\ \A m \in Marker : /\ stamp[d][m] <= clock
                              /\ m \in files[d] => stamp[d][m] > 0 /\ pc[d] \in Serving \cup Over
         /\ pc[d] \notin Serving \cup {"purge", "ended"} => stamp[d]["disconnected"] = 0

\* What a cleanup has found out so far; a disconnect marker that is gone again
\* went with a removal.
Chosen ==
    /\ \A c \in Process : pc[c] = "scan" /\ at[c] \in Marker \cup {"remove"} =>
                             pc[hand[c]] \in Over
    /\ \A c \in Process : pc[c] = "scan" /\ at[c] \in {"second", "live"} =>
                             stamp[hand[c]]["disconnected"] = 0 \/ hand[c] \in Overdue
    /\ \A c \in Process : pc[c] = "scan" /\ at[c] = "remove" => hand[c] \in Overdue
    /\ \A d \in Process : stamp[d]["disconnected"] # 0 /\ "disconnected" \notin files[d] =>
                             d \in Overdue

\* No call is left when the lease goes.
Closing ==
    \A p \in Process : /\ writing[p] => pc[p] \in Serving
                       /\ pc[p] = "purge" => closed[p] /\ Ttl[p] = 0

\* The inductive invariant.
IInv == TypeOK /\ Leases /\ Listed /\ Made /\ Stamps /\ Chosen /\ Closing

\* What is overdue stays so while the last sign of the session does.
LEMMA OverdueKept ==
    ASSUME TypeOK, TypeOK', NEW d \in Process, d \in Overdue, clock <= clock',
           LastSign(d)' = LastSign(d),
           \A r \in Process : (pc[r] # "off" => pc'[r] # "off") /\ (closed[r] => closed'[r])
    PROVE  d \in Overdue'
  <1>1. LastSign(d) \in Nat
    BY DEF LastSign, TypeOK, Marker
  <1>2. PICK r \in Process : /\ pc[r] # "off" /\ (r = d => closed[d])
                             /\ LastSign(d) + Ttl[r] <= clock
    BY DEF Overdue
  <1>3. LastSign(d)' + Ttl[r] <= clock'
    BY <1>1, <1>2, TtlAssumption DEF TypeOK
  <1>4. pc'[r] # "off"
    BY <1>2
  <1>5. r = d => closed'[d]
    BY <1>2, Zenon
  <1>6. QED
    BY <1>3, <1>4, <1>5 DEF Overdue

\* What writing a marker changes.
LEMMA TouchResult ==
    ASSUME TypeOK, NEW p \in Process, NEW m \in Marker, Touch(p, m)
    PROVE  /\ files' \in [Process -> SUBSET Entry] /\ files'[p] = files[p] \cup {m}
           /\ stamp' \in [Process -> [Marker -> Nat]] /\ stamp'[p][m] = clock
           /\ \A n \in Marker \ {m} : stamp'[p][n] = stamp[p][n]
           /\ \A d \in Process \ {p} : files'[d] = files[d] /\ stamp'[d] = stamp[d]
  BY DEF TypeOK, Touch, Entry

\* The owner of a session in use goes on to phase q, and may write a marker;
\* where it ends it gives up its lease and its calls.
LEMMA OwnerStep ==
    ASSUME IInv, NEW p \in Process, pc[p] \in Serving \cup {"mark"},
           NEW q \in Serving \cup {"undo", "ended"}, pc' = [pc EXCEPT ![p] = q],
           UNCHANGED <<clock, began, todo, hand, at, closed>>,
           told' \in [Process -> {"unset", "ok", "failed"}],
           \/ files' = files /\ stamp' = stamp
           \/ \E m \in Marker : Touch(p, m) /\ (m = "disconnected" => q # "undo"),
           q = "undo" => pc[p] = "mark",
           q \in Serving =>
             "live" \in files'[p] /\ holder' = holder /\ writing' = writing,
           q \notin Serving => /\ holder' = [holder EXCEPT ![p] = None]
                               /\ writing' = [writing EXCEPT ![p] = FALSE]
    PROVE  IInv'
  <1>1. /\ clock' = clock /\ began' = began /\ todo' = todo /\ hand' = hand
        /\ at' = at /\ closed' = closed
    OBVIOUS
  <1>2. /\ pc' \in [Process -> Phase] /\ pc'[p] = q
        /\ \A d \in Process \ {p} : pc'[d] = pc[d]
    BY DEF IInv, TypeOK, Phase, Serving
  <1>3. /\ files' \in [Process -> SUBSET Entry] /\ files[p] \subseteq files'[p]
        /\ stamp' \in [Process -> [Marker -> Nat]]
        /\ \A d \in Process \ {p} : files'[d] = files[d] /\ stamp'[d] = stamp[d]
        /\ \A m \in Marker : \/ stamp'[p][m] = clock
                             \/ stamp'[p][m] = stamp[p][m] /\ (m \in files'[p] <=> m \in files[p])
        /\ \/ "disconnected" \in files'[p] /\ q # "undo"
           \/ /\ stamp'[p]["disconnected"] = stamp[p]["disconnected"]
              /\ "disconnected" \in files'[p] <=> "disconnected" \in files[p]
    <2>1. CASE files' = files /\ stamp' = stamp
      BY <2>1 DEF IInv, TypeOK
    <2>2. CASE \E m \in Marker : Touch(p, m) /\ (m = "disconnected" => q # "undo")
      <3>1. PICK m \in Marker : Touch(p, m) /\ (m = "disconnected" => q # "undo")
        BY <2>2
      <3>2. /\ files' \in [Process -> SUBSET Entry] /\ files'[p] = files[p] \cup {m}
            /\ stamp' \in [Process -> [Marker -> Nat]] /\ stamp'[p][m] = clock
            /\ \A n \in Marker \ {m} : stamp'[p][n] = stamp[p][n]
            /\ \A d \in Process \ {p} : files'[d] = files[d] /\ stamp'[d] = stamp[d]
        BY <3>1, TouchResult DEF IInv
      <3>3. QED
        BY <3>1, <3>2 DEF Marker
    <2>3. QED
      BY <2>1, <2>2
  <1>4. /\ holder[p] = p
        /\ \A d \in Process : holder[d] = p => d = p
        /\ pc[p] \notin {"off", "scan", "make"} \cup Over
    BY DEF IInv, Leases, Serving, Over
  <1>5. /\ holder' \in [Process -> Process \cup {None}]
        /\ holder'[p] = IF q \in Serving THEN p ELSE None
        /\ \A d \in Process \ {p} : holder'[d] = holder[d]
    BY <1>4 DEF IInv, TypeOK
  <1>6. /\ writing' \in [Process -> BOOLEAN]
        /\ \A d \in Process : d # p \/ q \in Serving => writing'[d] = writing[d]
        /\ q \notin Serving => ~writing'[p]
    BY DEF IInv, TypeOK
  <1>7. TypeOK'
    BY <1>1, <1>2, <1>3, <1>5, <1>6 DEF IInv, TypeOK
  <1>8. \A d \in Process : pc[d] # "off" => pc'[d] # "off"
    BY <1>2 DEF Serving
  <1>9. ASSUME NEW d \in Process, d \in Overdue,
               d = p => stamp[p]["disconnected"] # 0 /\ "disconnected" \notin files'[p]
        PROVE  d \in Overdue'
    <2>1. LastSign(d)' = LastSign(d)
      BY <1>3, <1>9 DEF LastSign
    <2>2. QED
      BY <1>1, <1>7, <1>8, <1>9, <2>1, OverdueKept DEF IInv, TypeOK
  <1>10. \A b \in Process : pc'[b] = "scan" => b # p /\ pc[b] = "scan"
    BY <1>2 DEF Serving
  \* No cleanup that decides or removes is about p.
  <1>11. \A b \in Process : pc'[b] = "scan" /\ at'[b] \in Deciding \cup {"remove"} =>
                            hand[b] # p /\ hand[b] \in Process
    BY <1>1, <1>4, <1>10, NoneAssumption DEF IInv, TypeOK, Leases, Chosen, Deciding, Marker
  <1>12. Leases'
    <2>1. ASSUME NEW b \in Process, NEW d \in Process, holder'[d] = b
          PROVE  IF b = d THEN pc'[d] \in Serving \cup {"mark"}
                 ELSE pc'[b] = "scan" /\ at'[b] \in Deciding /\ hand'[b] = d
      BY <1>1, <1>2, <1>4, <1>5, <2>1, NoneAssumption DEF IInv, Leases
    <2>2. ASSUME NEW d \in Process, pc'[d] \in Serving \cup {"mark"}
          PROVE  holder'[d] = d
      BY <1>2, <1>5, <2>2 DEF IInv, Leases, Serving
    <2>3. ASSUME NEW b \in Process, pc'[b] = "scan", at'[b] \in Deciding
          PROVE  holder'[hand'[b]] = b
      BY <1>1, <1>5, <1>10, <1>11, <2>3 DEF IInv, Leases
    <2>4. QED
      BY <2>1, <2>2, <2>3 DEF Leases
  <1>13. Listed'
    <2>1. pc'[p] \notin {"off", "scan", "make"}
      BY <1>2 DEF Serving
    <2>2. \A d \in Process : pc'[d] \in {"off", "scan", "make"} => d # p /\ pc'[d] = pc[d]
      BY <1>2, <2>1
    <2>3. \A d \in Process : pc[d] \notin {"off", "scan", "make"} =>
                              pc'[d] \notin {"off", "scan", "make"}
      BY <1>2, <2>1
    <2>4. QED
      BY <1>1, <1>3, <2>2, <2>3 DEF IInv, Listed
  <1>14. Made'
    BY <1>2, <1>3 DEF IInv, Made, Serving
  <1>15. Stamps'
    BY <1>1, <1>2, <1>3 DEF IInv, Stamps, TypeOK, Serving, Over, Marker
  <1>16. Chosen'
    <2>1. \A b \in Process : pc'[b] = "scan" /\ at'[b] \in Marker \cup {"remove"} =>
                             pc'[hand'[b]] \in Over
      BY <1>1, <1>2, <1>10, <1>11 DEF IInv, Chosen, Deciding
    <2>2. \A b \in Process : pc'[b] = "scan" /\ at'[b] \in {"second", "live"} =>
             stamp'[hand'[b]]["disconnected"] = 0 \/ hand'[b] \in Overdue'
      BY <1>1, <1>3, <1>9, <1>10, <1>11 DEF IInv, Chosen, Deciding, Marker
    <2>3. \A b \in Process : pc'[b] = "scan" /\ at'[b] = "remove" => hand'[b] \in Overdue'
      BY <1>1, <1>9, <1>10, <1>11 DEF IInv, Chosen
    <2>4. ASSUME NEW d \in Process, stamp'[d]["disconnected"] # 0, "disconnected" \notin files'[d]
          PROVE  d \in Overdue'
      BY <1>3, <1>9, <2>4 DEF IInv, Chosen
    <2>5. QED
      BY <2>1, <2>2, <2>3, <2>4 DEF Chosen
  <1>17. Closing'
    BY <1>1, <1>2, <1>6 DEF IInv, Closing, Serving
  <1>18. QED
    BY <1>7, <1>12, <1>13, <1>14, <1>15, <1>16, <1>17 DEF IInv

\* It holds at the start.
LEMMA StoreInit == Init => IInv
  BY NoneAssumption DEF Init, IInv, TypeOK, Leases, Listed, Made, Stamps, Chosen, Closing,
     Phase, Steps, Serving, Marker, Entry, Deciding, Over, Overdue, LastSign

\* A server starts with a list of directories whose owners are past making them.
LEMMA StartStep ==
    ASSUME IInv, NEW p \in Process, Start(p)
    PROVE  IInv'
  <1> USE DEF IInv, Start, Goto, scan
  <1>1. TypeOK'
    BY DEF TypeOK, Steps, Phase, Serving, Marker, Entry
  <1>2. Leases'
    BY NoneAssumption, TtlAssumption
    DEF TypeOK, Leases, Listed, Made, Stamps, Chosen, Closing, Serving, Deciding, Marker,
        Over
  <1>3. Listed'
    BY DEF TypeOK, Listed
  <1>4. Made'
    BY DEF TypeOK, Made, Serving
  <1>5. Stamps'
    BY DEF TypeOK, Stamps, Serving, Over, Marker
  <1>6. Chosen'
    BY NoneAssumption, TtlAssumption
    DEF TypeOK, Leases, Listed, Made, Stamps, Chosen, Closing, Serving, Deciding, Marker,
        Over, Overdue, LastSign
  <1>7. Closing'
    BY DEF TypeOK, Closing, Serving
  <1>8. QED
    BY <1>1, <1>2, <1>3, <1>4, <1>5, <1>6, <1>7

\* The cleanup goes one step further with the directory it has in hand.
LEMMA AdvanceStep ==
    ASSUME IInv, NEW c \in Process, NEW step \in Deciding \cup {"remove"},
           pc[c] = "scan", at[c] # "pick", Advance(c, step),
           UNCHANGED <<clock, pc, files, stamp, writing, closed, told>>,
           CASE step = "remove" -> /\ at[c] \in Marker
                                   /\ holder' = [holder EXCEPT ![hand[c]] = None]
             [] step = "first" -> /\ at[c] = "lock" /\ holder[hand[c]] = None
                                  /\ holder' = [holder EXCEPT ![hand[c]] = c]
             [] OTHER -> at[c] \in Deciding /\ holder' = holder,
           step \in Marker \cup {"remove"} => pc[hand[c]] \in Over,
           step \in {"second", "live"} =>
             stamp[hand[c]]["disconnected"] = 0 \/ hand[c] \in Overdue,
           step = "remove" => hand[c] \in Overdue
    PROVE  IInv'
  <1>1. /\ at' \in [Process -> Steps] /\ at'[c] = step
        /\ \A d \in Process \ {c} : at'[d] = at[d]
        /\ began' = began /\ todo' = todo /\ hand' = hand
    BY DEF IInv, TypeOK, Advance, Deciding, Steps
  <1>2. /\ hand[c] \in Process /\ hand[c] # None /\ hand[c] # c
        /\ at'[c] # "pick"
    BY <1>1 DEF IInv, TypeOK, Listed, Deciding, Marker
  <1>3. /\ clock' = clock /\ pc' = pc /\ files' = files /\ stamp' = stamp
        /\ writing' = writing /\ closed' = closed /\ told' = told
    OBVIOUS
  <1>4. /\ holder' \in [Process -> Process \cup {None}]
        /\ \A d \in Process \ {hand[c]} : holder'[d] = holder[d]
        /\ holder'[hand[c]] = IF step = "remove" THEN None ELSE c
    <2>1. step \notin {"remove", "first"} => holder[hand[c]] = c
      BY DEF IInv, Leases
    <2>2. QED
      BY <1>2, <2>1 DEF IInv, TypeOK
  <1>5. Overdue' = Overdue
    BY <1>3 DEF Overdue, LastSign
  <1>6. TypeOK'
    <2>1. \A b \in Process : at'[b] = "pick" <=> hand'[b] = None
      BY <1>1, <1>2 DEF IInv, TypeOK
    <2>2. QED
      BY <1>1, <1>3, <1>4, <2>1 DEF IInv, TypeOK
  <1>7. Leases'
    <2>1. ASSUME NEW b \in Process, NEW d \in Process, holder'[d] = b
          PROVE  IF b = d THEN pc'[d] \in Serving \cup {"mark"}
                 ELSE pc'[b] = "scan" /\ at'[b] \in Deciding /\ hand'[b] = d
      BY <1>1, <1>2, <1>3, <1>4, <2>1, NoneAssumption DEF IInv, Leases, Deciding
    <2>2. ASSUME NEW p \in Process, pc'[p] \in Serving \cup {"mark"}
          PROVE  holder'[p] = p
      BY <1>2, <1>4, <2>2, NoneAssumption DEF IInv, Leases, Over, Serving, Deciding, Marker
    <2>3. ASSUME NEW b \in Process, pc'[b] = "scan", at'[b] \in Deciding
          PROVE  holder'[hand'[b]] = b
      <3>1. CASE b = c
        BY <1>1, <1>4, <2>3, <3>1 DEF Deciding, Marker
      <3>2. CASE b # c
        BY <1>1, <1>2, <1>3, <1>4, <2>3, <3>2, NoneAssumption DEF IInv, Leases, TypeOK, Deciding, Marker
      <3>3. QED
        BY <3>1, <3>2
    <2>4. QED
      BY <2>1, <2>2, <2>3 DEF Leases
  <1>8. Listed'
    BY <1>1, <1>3 DEF IInv, Listed
  <1>9. Made' /\ Stamps' /\ Closing'
    BY <1>1, <1>3 DEF IInv, Made, Stamps, Closing
  <1>10. Chosen'
    <2>1. \A b \in Process : pc'[b] = "scan" /\ at'[b] \in Marker \cup {"remove"} =>
                              pc'[hand'[b]] \in Over
      BY <1>1, <1>3 DEF IInv, Chosen
    <2>2. \A b \in Process : pc'[b] = "scan" /\ at'[b] \in {"second", "live"} =>
             stamp'[hand'[b]]["disconnected"] = 0 \/ hand'[b] \in Overdue'
      <3>1. ASSUME NEW b \in Process, pc'[b] = "scan", at'[b] \in {"second", "live"}
            PROVE  /\ hand'[b] = hand[b] /\ hand[b] \in Process
                   /\ stamp[hand[b]]["disconnected"] = 0 \/ hand[b] \in Overdue
        BY <1>1, <1>2, <1>3, <3>1 DEF IInv, TypeOK, Chosen
      <3>2. QED
        BY <1>3, <1>5, <3>1
    <2>3. \A b \in Process : pc'[b] = "scan" /\ at'[b] = "remove" => hand'[b] \in Overdue'
      <3>1. ASSUME NEW b \in Process, pc'[b] = "scan", at'[b] = "remove"
            PROVE  hand'[b] = hand[b] /\ hand[b] \in Process /\ hand[b] \in Overdue
        BY <1>1, <1>2, <1>3, <3>1 DEF IInv, TypeOK, Chosen
      <3>2. QED
        BY <1>5, <3>1
    <2>4. \A d \in Process : stamp'[d]["disconnected"] # 0 /\ "disconnected" \notin files'[d] =>
                              d \in Overdue'
      BY <1>3, <1>5 DEF IInv, Chosen
    <2>5. QED
      BY <2>1, <2>2, <2>3, <2>4 DEF Chosen
  <1>11. QED
    BY <1>6, <1>7, <1>8, <1>9, <1>10 DEF IInv

\* The cleanup is done with the directory it has in hand.
LEMMA LeaveStep ==
    ASSUME IInv, NEW c \in Process,
           pc[c] = "scan", at[c] # "pick", Leave(c),
           UNCHANGED <<clock, pc, stamp, writing, closed, told>>,
           \/ files' = files
           \/ at[c] = "remove" /\ files' = [files EXCEPT ![hand[c]] = {}],
           IF at[c] \in Deciding
           THEN holder' = [holder EXCEPT ![hand[c]] = None]
           ELSE holder' = holder
    PROVE  IInv'
  <1>1. /\ at' = [at EXCEPT ![c] = "pick"] /\ hand' = [hand EXCEPT ![c] = None]
        /\ todo' \in [Process -> SUBSET Process] /\ began' = began
        /\ \A d \in Process : todo'[d] \subseteq todo[d]
    BY DEF IInv, TypeOK, Leave
  <1>2. hand[c] \in Process /\ hand[c] # None /\ hand[c] # c
    BY DEF IInv, TypeOK, Listed
  <1>3. /\ at' \in [Process -> Steps] /\ hand' \in [Process -> Process \cup {None}]
        /\ at'[c] = "pick" /\ hand'[c] = None
        /\ \A d \in Process \ {c} : at'[d] = at[d] /\ hand'[d] = hand[d]
        /\ clock' = clock /\ pc' = pc /\ stamp' = stamp
        /\ writing' = writing /\ closed' = closed /\ told' = told
    BY <1>1 DEF IInv, TypeOK, Steps
  <1>4. /\ holder' \in [Process -> Process \cup {None}]
        /\ \A d \in Process \ {hand[c]} : holder'[d] = holder[d]
        /\ at[c] \in Deciding => holder'[hand[c]] = None
        /\ at[c] \notin Deciding => holder'[hand[c]] = holder[hand[c]]
    BY <1>2 DEF IInv, TypeOK
  <1>5. Overdue' = Overdue
    BY <1>3 DEF Overdue, LastSign
  <1>6. /\ files' \in [Process -> SUBSET Entry]
        /\ \A d \in Process : files'[d] \subseteq files[d]
        /\ \A d \in Process : files'[d] = files[d] \/ (pc[d] \in Over /\ d \in Overdue)
    <2>1. at[c] = "remove" => pc[hand[c]] \in Over /\ hand[c] \in Overdue
      BY DEF IInv, Chosen
    <2>2. QED
      BY <1>2, <2>1 DEF IInv, TypeOK
  <1>7. TypeOK'
    <2>1. \A b \in Process : at'[b] = "pick" <=> hand'[b] = None
      BY <1>3 DEF IInv, TypeOK
    <2>2. QED
      BY <1>1, <1>3, <1>4, <1>6, <2>1 DEF IInv, TypeOK
  <1>8. Leases'
    <2>1. ASSUME NEW b \in Process, NEW d \in Process, holder'[d] = b
          PROVE  IF b = d THEN pc'[d] \in Serving \cup {"mark"}
                 ELSE pc'[b] = "scan" /\ at'[b] \in Deciding /\ hand'[b] = d
      <3>1. holder[d] = b
        BY <1>2, <1>4, <2>1, NoneAssumption
      <3>2. b = d \/ b # c
        BY <1>2, <1>4, <2>1, <3>1, NoneAssumption DEF IInv, Leases
      <3>3. QED
        BY <1>3, <3>1, <3>2 DEF IInv, Leases
    <2>2. ASSUME NEW p \in Process, pc'[p] \in Serving \cup {"mark"}
          PROVE  holder'[p] = p
      BY <1>2, <1>4, <2>2, NoneAssumption DEF IInv, Leases
    <2>3. ASSUME NEW b \in Process, pc'[b] = "scan", at'[b] \in Deciding
          PROVE  holder'[hand'[b]] = b
      <3>1. b # c
        BY <1>3, <2>3 DEF Deciding, Marker
      <3>2. hand[b] \in Process /\ holder[hand[b]] = b
        BY <1>3, <2>3, <3>1 DEF IInv, Leases, TypeOK, Deciding, Marker
      <3>3. QED
        BY <1>2, <1>3, <1>4, <2>3, <3>1, <3>2 DEF IInv, Leases
    <2>4. QED
      BY <2>1, <2>2, <2>3 DEF Leases
  <1>9. Listed'
    <2>1. \A p \in Process : pc'[p] \in {"off", "scan", "make"} => files'[p] = {}
      BY <1>3, <1>6 DEF IInv, Listed, TypeOK
    <2>2. \A b, d \in Process : d \in todo'[b] \/ d = hand'[b] =>
                                pc'[d] \notin {"off", "scan", "make"}
      BY <1>1, <1>3, NoneAssumption DEF IInv, Listed
    <2>3. \A b \in Process : pc'[b] = "off" => hand'[b] = None
      BY <1>3 DEF IInv, Listed
    <2>4. QED
      BY <2>1, <2>2, <2>3 DEF Listed
  <1>10. Made' /\ Closing'
    BY <1>3, <1>6 DEF IInv, Made, Closing, Over, Serving
  <1>11. Stamps'
    BY <1>1, <1>3, <1>6 DEF IInv, Stamps
  <1>12. Chosen'
    <2>1. \A b \in Process : /\ at'[b] # "pick" => /\ at'[b] = at[b] /\ hand'[b] = hand[b]
                                                   /\ hand[b] \in Process
      BY <1>3 DEF IInv, TypeOK
    <2>2. \A b \in Process : pc'[b] = "scan" /\ at'[b] \in Marker \cup {"remove"} =>
                              pc'[hand'[b]] \in Over
      BY <1>3, <2>1 DEF IInv, Chosen, Marker
    <2>3. \A b \in Process : pc'[b] = "scan" /\ at'[b] \in {"second", "live"} =>
             stamp'[hand'[b]]["disconnected"] = 0 \/ hand'[b] \in Overdue'
      BY <1>3, <1>5, <2>1 DEF IInv, Chosen
    <2>4. \A b \in Process : pc'[b] = "scan" /\ at'[b] = "remove" => hand'[b] \in Overdue'
      BY <1>3, <1>5, <2>1 DEF IInv, Chosen
    <2>5. \A d \in Process : stamp'[d]["disconnected"] # 0 /\ "disconnected" \notin files'[d] =>
                              d \in Overdue'
      BY <1>3, <1>5, <1>6 DEF IInv, Chosen
    <2>6. QED
      BY <2>2, <2>3, <2>4, <2>5 DEF Chosen
  <1>13. QED
    BY <1>7, <1>8, <1>9, <1>10, <1>11, <1>12 DEF IInv

\* The lease is free, and the cleanup takes it, or it goes on.
LEMMA TryAcquireStep ==
    ASSUME IInv, NEW c \in Process, TryAcquire(c)
    PROVE  IInv'
  <1>1. pc[c] = "scan" /\ at[c] = "lock"
    BY DEF TryAcquire, At
  <1>2. CASE holder[hand[c]] = None
    BY <1>1, <1>2, AdvanceStep DEF TryAcquire, Locked, Deciding, Marker
  <1>3. CASE holder[hand[c]] # None
    BY <1>1, <1>3, LeaveStep DEF TryAcquire, Deciding, Marker
  <1>4. QED
    BY <1>2, <1>3

\* Under the lease the owner of a marker is over, and writes no other.
LEMMA ChooseMarkerStep ==
    ASSUME IInv, NEW c \in Process, ChooseMarker(c)
    PROVE  IInv'
  <1> DEFINE d == hand[c]
  <1>1. /\ pc[c] = "scan" /\ at[c] \in {"first", "second"}
        /\ UNCHANGED <<clock, pc, files, stamp, writing, closed, told>>
    BY DEF ChooseMarker
  <1>2. d \in Process /\ d # c /\ holder[d] = c
    BY <1>1 DEF IInv, TypeOK, Listed, Leases, Deciding
  \* A directory with a marker that can be locked belongs to nobody alive.
  <1>3. files[d] \cap Marker # {} => pc[d] \in Over
    BY <1>2 DEF IInv, Stamps, Leases
  <1>4. stamp[d]["disconnected"] = 0 \/ "disconnected" \in files[d] \/ d \in Overdue
    BY <1>2 DEF IInv, Chosen
  <1>5. CASE at[c] = "first" /\ "disconnected" \in files[d]
    <2>1. Advance(c, "disconnected") /\ holder' = holder
      BY <1>5 DEF ChooseMarker
    <2>2. QED
      BY <1>1, <1>3, <1>5, <2>1, AdvanceStep DEF Deciding, Marker
  <1>6. CASE at[c] = "first" /\ "disconnected" \notin files[d]
    <2>1. Advance(c, "second") /\ holder' = holder
      BY <1>6 DEF ChooseMarker
    <2>2. QED
      BY <1>1, <1>4, <1>6, <2>1, AdvanceStep DEF Deciding, Marker
  <1>7. CASE at[c] = "second" /\ "live" \in files[d]
    <2>1. Advance(c, "live") /\ holder' = holder
      BY <1>7 DEF ChooseMarker
    <2>2. stamp[d]["disconnected"] = 0 \/ d \in Overdue
      BY <1>1, <1>7 DEF IInv, Chosen
    <2>3. QED
      BY <1>1, <1>3, <1>7, <2>1, <2>2, AdvanceStep DEF Deciding, Marker
  <1>8. CASE at[c] = "second" /\ "live" \notin files[d]
    <2>1. Leave(c) /\ holder' = [holder EXCEPT ![d] = None]
      BY <1>8 DEF ChooseMarker, Unlock, Locked
    <2>2. QED
      BY <1>1, <1>8, <2>1, LeaveStep DEF Deciding
  <1>9. QED
    BY <1>1, <1>5, <1>6, <1>7, <1>8

\* An old marker, read under the lease, is the last sign of its owner.
LEMMA JudgeStep ==
    ASSUME IInv, NEW c \in Process, Judge(c)
    PROVE  IInv'
  <1> DEFINE d == hand[c]
  <1>1. PICK m \in Marker :
          /\ At(c, m) /\ m \in files[d]
          /\ IF stamp[d][m] + Ttl[c] <= began[c] \/ Ttl[c] = 0
             THEN Advance(c, "remove")
             ELSE Leave(c)
    BY DEF Judge
  <1>2. /\ pc[c] = "scan" /\ at[c] = m /\ m \in Deciding /\ m # "pick"
        /\ holder' = [holder EXCEPT ![d] = None]
        /\ UNCHANGED <<clock, pc, files, stamp, writing, closed, told>>
    BY <1>1 DEF Judge, At, Unlock, Locked, Deciding, Marker
  <1>3. d \in Process /\ d # c /\ pc[d] \in Over
    BY <1>2 DEF IInv, TypeOK, Listed, Chosen
  <1>4. CASE ~(stamp[d][m] + Ttl[c] <= began[c] \/ Ttl[c] = 0)
    BY <1>1, <1>2, <1>4, LeaveStep
  <1>5. CASE stamp[d][m] + Ttl[c] <= began[c] \/ Ttl[c] = 0
    <2>1. stamp[d][m] + Ttl[c] <= clock
      BY <1>3, <1>5, TtlAssumption DEF IInv, Stamps, TypeOK
    <2>2. CASE m = "disconnected"
      <3>1. LastSign(d) = stamp[d][m]
        BY <1>1, <1>3, <2>2 DEF IInv, Stamps, TypeOK, LastSign
      <3>2. d \in Overdue
        BY <1>2, <1>3, <2>1, <3>1 DEF Overdue
      <3>3. QED
        BY <1>1, <1>2, <1>3, <1>5, <3>2, AdvanceStep
    <2>3. CASE m = "live"
      <3>1. stamp[d]["disconnected"] = 0 \/ d \in Overdue
        BY <1>2, <2>3 DEF IInv, Chosen
      <3>2. d \in Overdue
        BY <1>2, <1>3, <2>1, <2>3, <3>1 DEF Overdue, LastSign
      <3>3. QED
        BY <1>1, <1>2, <1>3, <1>5, <3>2, AdvanceStep
    <2>4. QED
      BY <2>2, <2>3 DEF Marker
  <1>6. QED
    BY <1>4, <1>5

\* A cleanup takes a directory of its list in hand, or passes it over.
LEMMA PickStep ==
    ASSUME IInv, NEW c \in Process, NEW d \in Process, Pick(c, d)
    PROVE  IInv'
  <1>1. /\ pc[c] = "scan" /\ at[c] = "pick" /\ d \in todo[c] /\ hand[c] = None
        /\ clock' = clock /\ pc' = pc /\ began' = began /\ files' = files /\ stamp' = stamp
        /\ holder' = holder /\ writing' = writing /\ closed' = closed /\ told' = told
    BY DEF Pick, At, IInv, TypeOK
  <1>2. /\ at' \in [Process -> Steps] /\ hand' \in [Process -> Process \cup {None}]
        /\ todo' \in [Process -> SUBSET Process]
        /\ \A b \in Process : todo'[b] \subseteq todo[b]
        /\ \A b \in Process \ {c} : at'[b] = at[b] /\ hand'[b] = hand[b]
        /\ \/ at'[c] = "lock" /\ hand'[c] = d
           \/ at'[c] = "pick" /\ hand'[c] = None
    <2>1. CASE "lease" \in files[d]
      <3>1. /\ at' = [at EXCEPT ![c] = "lock"] /\ hand' = [hand EXCEPT ![c] = d]
            /\ todo' = todo
        BY <2>1 DEF Pick
      <3>2. QED
        BY <3>1 DEF IInv, TypeOK, Steps
    <2>2. CASE "lease" \notin files[d]
      <3>1. at' = at /\ hand' = hand /\ todo' = [todo EXCEPT ![c] = @ \ {d}]
        BY <2>2 DEF Pick
      <3>2. QED
        BY <1>1, <3>1 DEF IInv, TypeOK
    <2>3. QED
      BY <2>1, <2>2
  <1>3. Overdue' = Overdue
    BY <1>1 DEF Overdue, LastSign
  <1>4. \A b \in Process : at'[b] \notin {"pick", "lock"} => at'[b] = at[b] /\ hand'[b] = hand[b]
    BY <1>2
  <1>5. TypeOK'
    <2>1. \A b \in Process : at'[b] = "pick" <=> hand'[b] = None
      BY SMTT(20), <1>2, NoneAssumption DEF IInv, TypeOK
    <2>2. QED
      BY <1>1, <1>2, <2>1 DEF IInv, TypeOK
  <1>6. Leases'
    <2>1. \A b \in Process : at[b] \in Deciding => at'[b] = at[b] /\ hand'[b] = hand[b]
      BY <1>1, <1>2 DEF Deciding, Marker
    <2>2. QED
      BY <1>1, <1>4, <2>1 DEF IInv, Leases, Deciding, Marker
  <1>7. Listed'
    <2>1. \A b, e \in Process : e \in todo'[b] \/ e = hand'[b] => pc[e] \notin {"off", "scan", "make"}
      BY <1>1, <1>2, NoneAssumption DEF IInv, Listed
    <2>2. QED
      BY <1>1, <1>2, <2>1 DEF IInv, Listed
  <1>8. Made' /\ Closing' /\ Stamps'
    BY <1>1 DEF IInv, Made, Closing, Stamps
  <1>9. Chosen'
    BY <1>1, <1>3, <1>4 DEF IInv, Chosen, Marker
  <1>10. QED
    BY <1>5, <1>6, <1>7, <1>8, <1>9 DEF IInv

\* Whatever is being removed is over.
LEMMA RemovedIsOver ==
    ASSUME IInv, NEW r \in Process, NEW d \in Process, Removing(r, d)
    PROVE  pc[d] \in Over
  BY DEF IInv, Chosen, Removing, At, Over

\* The process ends.
LEMMA EndStep ==
    ASSUME IInv, NEW p \in Process, pc[p] # "off", End(p), stamp' = stamp,
           \/ files' = files
           \/ pc[p] \in {"undo", "purge"} /\ files' = [files EXCEPT ![p] = {}]
    PROVE  IInv'
  <1>1. /\ pc' = [pc EXCEPT ![p] = "ended"]
        /\ holder' = [d \in Process |-> IF holder[d] = p THEN None ELSE holder[d]]
        /\ writing' = [writing EXCEPT ![p] = FALSE]
        /\ clock' = clock /\ began' = began /\ todo' = todo /\ hand' = hand /\ at' = at
        /\ closed' = closed /\ told' = told
    BY DEF End, Goto, scan
  <1>2. /\ files' \in [Process -> SUBSET Entry]
        /\ \A d \in Process : files'[d] \subseteq files[d]
        /\ \A d \in Process : files'[d] = files[d] \/ (pc[d] \in Over /\ files'[d] = {} /\ d = p)
    BY DEF IInv, TypeOK, Over
  <1>3. /\ pc' \in [Process -> Phase] /\ pc'[p] = "ended"
        /\ \A d \in Process \ {p} : pc'[d] = pc[d]
    BY <1>1 DEF IInv, TypeOK, Phase
  <1>4. TypeOK'
    BY <1>1, <1>2, <1>3 DEF IInv, TypeOK
  <1>5. \A d \in Process : d \in Overdue => d \in Overdue'
    <2>1. \A d \in Process : LastSign(d)' = LastSign(d)
      BY DEF LastSign
    <2>2. QED
      BY <1>1, <1>3, <1>4, <2>1, OverdueKept DEF IInv, TypeOK
  \* What the owner removes at its end it may remove at once.
  <1>6. \A d \in Process : files'[d] # files[d] =>
                           stamp[d]["disconnected"] = 0 \/ d \in Overdue
    <2>1. ASSUME NEW d \in Process, files'[d] # files[d]
          PROVE  stamp[d]["disconnected"] = 0 \/ d \in Overdue
      <3>1. d = p /\ pc[p] \in {"undo", "purge"}
        BY <2>1 DEF IInv, TypeOK
      <3>2. CASE pc[p] = "undo"
        BY <3>1, <3>2 DEF IInv, Stamps, Serving
      <3>3. CASE pc[p] = "purge"
        <4>1. closed[p] /\ Ttl[p] = 0
          BY <3>3 DEF IInv, Closing
        <4>2. LastSign(p) \in Nat /\ LastSign(p) <= clock
          BY DEF IInv, Stamps, TypeOK, LastSign, Marker
        <4>3. LastSign(p) + Ttl[p] <= clock
          BY <4>1, <4>2
        <4>4. p \in Overdue
          BY <3>3, <4>1, <4>3 DEF Overdue
        <4>5. QED
          BY <3>1, <4>4
      <3>4. QED
        BY <3>1, <3>2, <3>3
    <2>2. QED
      BY <2>1
  <1>7. Leases'
    <2>1. ASSUME NEW b \in Process, NEW d \in Process, holder'[d] = b
          PROVE  IF b = d THEN pc'[d] \in Serving \cup {"mark"}
                 ELSE pc'[b] = "scan" /\ at'[b] \in Deciding /\ hand'[b] = d
      <3>1. holder[d] = b /\ b # p
        BY <1>1, <2>1, NoneAssumption
      <3>2. QED
        BY <1>1, <1>3, <3>1 DEF IInv, Leases
    <2>2. ASSUME NEW d \in Process, pc'[d] \in Serving \cup {"mark"}
          PROVE  holder'[d] = d
      <3>1. d # p
        BY <1>3, <2>2 DEF Serving
      <3>2. QED
        BY <1>1, <1>3, <2>2, <3>1 DEF IInv, Leases
    <2>3. ASSUME NEW b \in Process, pc'[b] = "scan", at'[b] \in Deciding
          PROVE  holder'[hand'[b]] = b
      <3>1. b # p /\ pc[b] = "scan"
        BY <1>3, <2>3
      <3>2. hand[b] \in Process /\ holder[hand[b]] = b
        BY <1>1, <2>3, <3>1 DEF IInv, Leases, TypeOK, Deciding, Marker
      <3>3. QED
        BY <1>1, <3>1, <3>2
    <2>4. QED
      BY <2>1, <2>2, <2>3 DEF Leases
  <1>8. Listed'
    BY <1>1, <1>2, <1>3 DEF IInv, Listed
  <1>9. Made'
    BY <1>2, <1>3 DEF IInv, Made, Serving, Over
  <1>10. Stamps'
    BY <1>1, <1>2, <1>3 DEF IInv, Stamps, Over
  <1>11. Closing'
    BY <1>1, <1>3 DEF IInv, Closing, Serving, TypeOK
  <1>12. Chosen'
    <2>1. \A b \in Process : pc'[b] = "scan" => b # p /\ pc[b] = "scan"
      BY <1>3
    <2>2. \A b \in Process : pc'[b] = "scan" /\ at'[b] \in Marker \cup {"remove"} =>
                             pc'[hand'[b]] \in Over
      <3>1. ASSUME NEW b \in Process, pc'[b] = "scan", at'[b] \in Marker \cup {"remove"}
            PROVE  hand[b] \in Process /\ pc[hand[b]] \in Over
        BY <1>1, <2>1, <3>1 DEF IInv, TypeOK, Chosen, Marker
      <3>2. QED
        BY <1>1, <1>3, <3>1 DEF Over
    <2>3. \A b \in Process : pc'[b] = "scan" /\ at'[b] \in {"second", "live"} =>
             stamp'[hand'[b]]["disconnected"] = 0 \/ hand'[b] \in Overdue'
      BY <1>1, <1>5, <2>1 DEF IInv, TypeOK, Chosen
    <2>4. \A b \in Process : pc'[b] = "scan" /\ at'[b] = "remove" => hand'[b] \in Overdue'
      BY <1>1, <1>5, <2>1 DEF IInv, TypeOK, Chosen
    <2>5. \A d \in Process : stamp'[d]["disconnected"] # 0 /\ "disconnected" \notin files'[d] =>
                             d \in Overdue'
      BY <1>5, <1>6 DEF IInv, Chosen
    <2>6. QED
      BY <2>2, <2>3, <2>4, <2>5 DEF Chosen
  <1>13. QED
    BY <1>4, <1>7, <1>8, <1>9, <1>10, <1>11, <1>12 DEF IInv

\* The directory itself goes, and with it the removal ends.
LEMMA RemoveLastStep ==
    ASSUME IInv, NEW c \in Process, NEW d \in Process, RemoveLast(c, d)
    PROVE  IInv'
  <1>1. Removing(c, d) /\ files' = [files EXCEPT ![d] = {}]
    BY DEF RemoveLast
  <1>2. CASE pc[c] = "scan"
    <2>1. at[c] = "remove" /\ d = hand[c]
      BY <1>1, <1>2 DEF Removing, At
    <2>2. /\ Leave(c)
          /\ UNCHANGED <<clock, pc, stamp, holder, writing, closed, told>>
      BY <1>2 DEF RemoveLast
    <2>3. QED
      BY <1>1, <1>2, <2>1, <2>2, LeaveStep DEF Deciding, Marker
  <1>3. CASE pc[c] # "scan"
    <2>1. pc[c] \in {"undo", "purge"} /\ d = c
      BY <1>1, <1>3 DEF Removing, At
    <2>2. End(c) /\ stamp' = stamp
      BY <1>3 DEF RemoveLast
    <2>3. QED
      BY <1>1, <2>1, <2>2, EndStep
  <1>4. QED
    BY <1>2, <1>3

\* The ways to end that leave the files as they are.
LEMMA EndingSteps ==
    ASSUME IInv, NEW p \in Process, Vanished(p) \/ Fail(p) \/ Crash(p)
    PROVE  IInv'
  BY EndStep DEF Vanished, Fail, Crash, At

\* The first heartbeat completes the creation.
LEMMA MarkLiveStep ==
    ASSUME IInv, NEW p \in Process, MarkLive(p)
    PROVE  IInv'
  <1>1. /\ pc[p] = "mark" /\ pc' = [pc EXCEPT ![p] = "serve"] /\ Touch(p, "live")
        /\ UNCHANGED <<clock, began, todo, hand, at, closed, told, holder, writing>>
    BY DEF MarkLive, Goto, scan
  <1>2. "live" \in files'[p]
    BY <1>1 DEF Touch, IInv, TypeOK
  <1>3. QED
    BY <1>1, <1>2, OwnerStep DEF IInv, TypeOK, Serving, Marker

\* A heartbeat, written or failed.
LEMMA HeartbeatStep ==
    ASSUME IInv, NEW p \in Process, Heartbeat(p)
    PROVE  IInv'
  <1>1. PICK q \in {"serve", "drain", "finish"} :
          /\ pc' = [pc EXCEPT ![p] = q]
          /\ Touch(p, "live") \/ (files' = files /\ stamp' = stamp)
    BY DEF Heartbeat, Goto, TouchFailed, IInv, TypeOK
  <1>2. /\ pc[p] \in {"serve", "drain"}
        /\ UNCHANGED <<clock, began, todo, hand, at, closed, told, holder, writing>>
    BY DEF Heartbeat, scan
  <1>3. "live" \in files'[p]
    BY <1>1, <1>2 DEF Touch, IInv, TypeOK, Made, Serving
  <1>4. QED
    BY <1>1, <1>2, <1>3, OwnerStep DEF IInv, TypeOK, Serving, Marker

\* The marker of the disconnect, with the service still draining.
LEMMA DisconnectStep ==
    ASSUME IInv, NEW p \in Process, Disconnect(p)
    PROVE  IInv'
  <1>1. PICK q \in {"drain", "finish"} : pc' = [pc EXCEPT ![p] = q]
    BY DEF Disconnect, Goto
  <1>2. /\ Touch(p, "disconnected") \/ (files' = files /\ stamp' = stamp)
        /\ told' \in [Process -> {"unset", "ok", "failed"}]
    BY DEF Disconnect, MarkDisconnected, TouchFailed, IInv, TypeOK
  <1>3. /\ pc[p] \in {"serve", "finish"}
        /\ UNCHANGED <<clock, began, todo, hand, at, closed, holder, writing>>
    BY DEF Disconnect, scan
  <1>4. "live" \in files'[p]
    BY <1>2, <1>3 DEF Touch, IInv, TypeOK, Made, Serving
  <1>5. QED
    BY <1>1, <1>2, <1>3, <1>4, OwnerStep DEF Serving, Marker

\* What End does to the lease and the calls of a process that serves.
LEMMA EndServing ==
    ASSUME IInv, NEW p \in Process, pc[p] \in Serving, End(p)
    PROVE  /\ pc' = [pc EXCEPT ![p] = "ended"]
           /\ holder' = [holder EXCEPT ![p] = None]
           /\ writing' = [writing EXCEPT ![p] = FALSE]
           /\ UNCHANGED <<clock, began, todo, hand, at, closed, told>>
  <1>1. holder[p] = p /\ \A d \in Process : holder[d] = p => d = p
    BY DEF IInv, Leases, Serving
  <1>2. holder' = [d \in Process |-> IF holder[d] = p THEN None ELSE holder[d]]
    BY DEF End
  <1>3. holder' = [holder EXCEPT ![p] = None]
    BY <1>1, <1>2 DEF IInv, TypeOK
  <1>4. QED
    BY <1>3 DEF End, Goto, scan

\* The marker once more, with the service over.
LEMMA FinishStep ==
    ASSUME IInv, NEW p \in Process, Finish(p)
    PROVE  IInv'
  <1>1. pc[p] = "finish" /\ pc[p] \in Serving
    BY DEF Finish, Serving
  <1>2. CASE /\ MarkDisconnected(p, TRUE) /\ Goto(p, "release")
             /\ UNCHANGED <<clock, scan, holder, writing, closed, told>>
    <2>1. /\ Touch(p, "disconnected") /\ pc' = [pc EXCEPT ![p] = "release"]
          /\ UNCHANGED <<clock, began, todo, hand, at, holder, writing, closed, told>>
      BY <1>2 DEF MarkDisconnected, Goto, scan
    <2>2. "live" \in files'[p]
      BY <1>1, <2>1 DEF Touch, IInv, TypeOK, Made
    <2>3. QED
      BY <1>1, <2>1, <2>2, OwnerStep DEF IInv, TypeOK, Serving, Marker
  <1>3. CASE MarkDisconnected(p, FALSE) /\ End(p)
    <2>1. Touch(p, "disconnected") \/ (files' = files /\ stamp' = stamp)
      BY <1>3 DEF MarkDisconnected, TouchFailed
    <2>2. /\ pc' = [pc EXCEPT ![p] = "ended"]
          /\ holder' = [holder EXCEPT ![p] = None]
          /\ writing' = [writing EXCEPT ![p] = FALSE]
          /\ UNCHANGED <<clock, began, todo, hand, at, closed, told>>
      BY <1>1, <1>3, EndServing
    <2>3. QED
      BY <1>1, <2>1, <2>2, OwnerStep DEF IInv, TypeOK, Serving, Marker
  <1>4. CASE End(p) /\ UNCHANGED <<files, stamp>>
    BY <1>1, <1>4, EndStep
  <1>5. QED
    BY <1>2, <1>3, <1>4 DEF Finish

\* The owner, not serving yet, goes on or gives up.
LEMMA LockLeaseStep ==
    ASSUME IInv, NEW p \in Process, LockLease(p)
    PROVE  IInv'
  <1>1. /\ pc[p] = "lock"
        /\ clock' = clock /\ began' = began /\ todo' = todo /\ hand' = hand /\ at' = at
        /\ files' = files /\ stamp' = stamp /\ writing' = writing /\ closed' = closed
        /\ told' = told
    BY DEF LockLease, scan
  <1>2. PICK q \in {"mark", "undo"} :
          /\ pc' = [pc EXCEPT ![p] = q]
          /\ q = "mark" => holder[p] = None /\ holder' = [holder EXCEPT ![p] = p]
          /\ q = "undo" => holder' = holder
    BY DEF LockLease, Goto, Locked
  <1>3. /\ pc' \in [Process -> Phase] /\ pc'[p] = q
        /\ \A d \in Process \ {p} : pc'[d] = pc[d]
    BY <1>2 DEF IInv, TypeOK, Phase
  <1>4. /\ holder' \in [Process -> Process \cup {None}]
        /\ \A d \in Process \ {p} : holder'[d] = holder[d]
        /\ q = "mark" => holder[p] = None /\ holder'[p] = p
        /\ q = "undo" => holder'[p] = holder[p]
    BY SMTT(20), <1>2 DEF IInv, TypeOK
  <1>5. TypeOK'
    BY <1>1, <1>3, <1>4 DEF IInv, TypeOK
  <1>6. \A d \in Process : d \in Overdue => d \in Overdue'
    <2>1. \A d \in Process : LastSign(d)' = LastSign(d)
      BY <1>1 DEF LastSign
    <2>2. QED
      BY <1>1, <1>3, <1>5, <2>1, OverdueKept DEF IInv, TypeOK
  <1>7. Leases'
    <2>1. ASSUME NEW b \in Process, NEW d \in Process, holder'[d] = b
          PROVE  IF b = d THEN pc'[d] \in Serving \cup {"mark"}
                 ELSE pc'[b] = "scan" /\ at'[b] \in Deciding /\ hand'[b] = d
      BY <1>1, <1>2, <1>3, <1>4, <2>1, NoneAssumption DEF IInv, Leases, Serving
    <2>2. ASSUME NEW d \in Process, pc'[d] \in Serving \cup {"mark"}
          PROVE  holder'[d] = d
      BY <1>1, <1>3, <1>4, <2>2 DEF IInv, Leases, Serving
    <2>3. ASSUME NEW b \in Process, pc'[b] = "scan", at'[b] \in Deciding
          PROVE  holder'[hand'[b]] = b
      <3>1. b # p /\ pc[b] = "scan"
        BY <1>3, <2>3
      <3>2. hand[b] \in Process /\ holder[hand[b]] = b
        BY <1>1, <2>3, <3>1 DEF IInv, Leases, TypeOK, Deciding, Marker
      <3>3. QED
        BY <1>1, <1>2, <1>4, <3>1, <3>2, NoneAssumption
    <2>4. QED
      BY <2>1, <2>2, <2>3 DEF Leases
  <1>8. Listed'
    BY <1>1, <1>3 DEF IInv, Listed
  <1>9. Made' /\ Closing'
    BY <1>1, <1>3 DEF IInv, Made, Closing, Serving
  <1>10. Stamps'
    BY <1>1, <1>3 DEF IInv, Stamps, Serving, Over
  <1>11. Chosen'
    <2>1. \A b \in Process : pc'[b] = "scan" => pc[b] = "scan"
      BY <1>1, <1>3
    <2>2. \A d \in Process : pc[d] \in Over => pc'[d] \in Over
      BY <1>1, <1>3 DEF Over
    <2>3. \A b \in Process : at[b] \in Marker \cup {"remove", "second"} => hand[b] \in Process
      BY DEF IInv, TypeOK, Marker
    <2>4. QED
      BY <1>1, <1>6, <2>1, <2>2, <2>3 DEF IInv, Chosen, Marker
  <1>12. QED
    BY <1>5, <1>7, <1>8, <1>9, <1>10, <1>11 DEF IInv

\* A cleanup that is through its list makes its own directory.
LEMMA ScannedStep ==
    ASSUME IInv, NEW c \in Process, Scanned(c)
    PROVE  IInv'
  <1> USE DEF IInv, Scanned, Goto, At, scan
  <1>1. TypeOK'
    BY DEF TypeOK, Steps, Phase, Serving, Marker, Entry
  <1>2. Leases'
    BY DEF TypeOK, Leases, Serving, Deciding, Marker
  <1>3. Listed'
    BY DEF TypeOK, Listed
  <1>4. Made'
    BY DEF TypeOK, Made, Serving
  <1>5. Stamps'
    BY DEF TypeOK, Stamps, Serving, Over, Marker
  <1>6. Chosen'
    BY SMTT(20) DEF TypeOK, Chosen, Over, Marker, Overdue, LastSign
  <1>7. Closing'
    BY DEF TypeOK, Closing, Serving
  <1>8. QED
    BY <1>1, <1>2, <1>3, <1>4, <1>5, <1>6, <1>7

\* A removal takes a marker away only when the storage is overdue.
LEMMA RemoveEntryStep ==
    ASSUME IInv, NEW c \in Process, NEW d \in Process, RemoveEntry(c, d)
    PROVE  IInv'
  <1> USE DEF IInv, RemoveEntry, At, Removing, scan
  <1>1. TypeOK'
    BY DEF TypeOK, Steps, Phase, Serving, Marker, Entry
  <1>2. Leases'
    BY DEF TypeOK, Leases, Serving, Deciding, Marker
  <1>3. Listed'
    BY DEF TypeOK, Listed
  <1>4. Made'
    <2>1. pc[d] \in Over
      BY RemovedIsOver DEF IInv
    <2>2. \A b \in Process : b # d => files'[b] = files[b]
      BY DEF TypeOK
    <2>3. QED
      BY <2>1, <2>2 DEF TypeOK, Made, Serving, Over
  <1>5. Stamps'
    BY DEF TypeOK, Stamps, Serving, Over, Marker
  <1>6. Chosen'
    <2>1. \A b \in Process : b \in Overdue => b \in Overdue'
      BY <1>1, OverdueKept DEF TypeOK, LastSign
    \* The marker of a disconnect goes with the storage that is overdue.
    <2>2. stamp[d]["disconnected"] # 0 => d \in Overdue
      <3>1. CASE pc[c] = "undo" /\ d = c
        BY <3>1 DEF Stamps, Serving
      <3>2. CASE pc[c] = "purge" /\ d = c
        <4>1. closed[d] /\ Ttl[d] = 0 /\ LastSign(d) <= clock /\ LastSign(d) \in Nat
          BY <3>2 DEF TypeOK, Closing, Stamps, LastSign, Marker
        <4>2. QED
          BY <3>2, <4>1 DEF Overdue
      <3>3. CASE pc[c] = "scan" /\ at[c] = "remove" /\ d = hand[c]
        BY <3>3 DEF Chosen
      <3>4. QED
        BY <3>1, <3>2, <3>3
    <2>3. \A b \in Process : b # d => files'[b] = files[b]
      BY DEF TypeOK
    <2>4. QED
      BY <2>1, <2>2, <2>3 DEF TypeOK, Chosen, Marker
  <1>7. Closing'
    BY DEF TypeOK, Closing, Serving
  <1>8. QED
    BY <1>1, <1>2, <1>3, <1>4, <1>5, <1>6, <1>7

\* A new directory, in nobody's list yet.
LEMMA MakeDirectoriesStep ==
    ASSUME IInv, NEW p \in Process, MakeDirectories(p)
    PROVE  IInv'
  <1> USE DEF IInv, MakeDirectories, Goto, scan
  <1>1. TypeOK'
    BY DEF TypeOK, Steps, Phase, Serving, Marker, Entry
  <1>2. Leases'
    BY DEF TypeOK, Leases, Serving, Deciding, Marker
  <1>3. Listed'
    BY DEF TypeOK, Listed
  <1>4. Made'
    BY DEF TypeOK, Made, Serving
  <1>5. Stamps'
    BY DEF TypeOK, Stamps, Serving, Over, Marker
  <1>6. Chosen'
    BY NoneAssumption, TtlAssumption
    DEF TypeOK, Leases, Listed, Made, Stamps, Chosen, Closing, Serving, Deciding, Marker,
        Over, Overdue, LastSign
  <1>7. Closing'
    BY DEF TypeOK, Closing, Serving
  <1>8. QED
    BY <1>1, <1>2, <1>3, <1>4, <1>5, <1>6, <1>7

\* The lease file, before it is locked.
LEMMA MakeLeaseStep ==
    ASSUME IInv, NEW p \in Process, MakeLease(p)
    PROVE  IInv'
  <1> USE DEF IInv, MakeLease, Goto, scan
  <1>1. TypeOK'
    BY DEF TypeOK, Steps, Phase, Serving, Marker, Entry
  <1>2. Leases'
    BY DEF TypeOK, Leases, Serving, Deciding, Marker
  <1>3. Listed'
    BY DEF TypeOK, Listed
  <1>4. Made'
    BY DEF TypeOK, Made, Serving
  <1>5. Stamps'
    BY DEF TypeOK, Stamps, Serving, Over, Marker
  <1>6. Chosen'
    <2>1. \A d \in Process : d \in Overdue => d \in Overdue'
      <3>1. \A d \in Process : LastSign(d)' = LastSign(d)
        BY DEF LastSign
      <3>2. clock <= clock' /\ (\A r \in Process : closed[r] => closed'[r])
        BY DEF TypeOK
      <3>3. \A r \in Process : pc[r] # "off" => pc'[r] # "off"
        BY DEF TypeOK
      <3>4. QED
        BY <1>1, <3>1, <3>2, <3>3, OverdueKept
    <2>2. \A c \in Process : pc'[c] = "scan" => pc[c] = "scan"
      BY DEF TypeOK
    <2>3. \A d \in Process : pc[d] \in Over => pc'[d] \in Over
      BY DEF TypeOK, Over
    <2>4. \A d \in Process : "disconnected" \in files[d] => "disconnected" \in files'[d]
      BY DEF TypeOK
    <2>5. \A c \in Process : pc[c] = "scan" /\ at[c] \in Marker \cup {"remove", "second", "live"} =>
                                 hand[c] \in Process
      BY DEF TypeOK, Marker
    <2>6. QED
      BY <2>1, <2>2, <2>3, <2>4, <2>5 DEF Chosen, Marker
  <1>7. Closing'
    BY DEF TypeOK, Closing, Serving
  <1>8. QED
    BY <1>1, <1>2, <1>3, <1>4, <1>5, <1>6, <1>7

\* Calls begin while the lease is held.
LEMMA BeginWriteStep ==
    ASSUME IInv, NEW p \in Process, BeginWrite(p)
    PROVE  IInv'
  <1> USE DEF IInv, BeginWrite, scan
  <1>1. TypeOK'
    BY DEF TypeOK, Steps, Phase, Serving, Marker, Entry
  <1>2. Leases'
    BY DEF TypeOK, Leases, Serving, Deciding, Marker
  <1>3. Listed'
    BY DEF TypeOK, Listed
  <1>4. Made'
    BY DEF TypeOK, Made, Serving
  <1>5. Stamps'
    BY DEF TypeOK, Stamps, Serving, Over, Marker
  <1>6. Chosen'
    BY DEF TypeOK, Chosen, Over, Marker, Overdue, LastSign
  <1>7. Closing'
    BY DEF TypeOK, Closing, Serving
  <1>8. QED
    BY <1>1, <1>2, <1>3, <1>4, <1>5, <1>6, <1>7

\* And end.
LEMMA EndWriteStep ==
    ASSUME IInv, NEW p \in Process, EndWrite(p)
    PROVE  IInv'
  <1> USE DEF IInv, EndWrite, scan
  <1>1. TypeOK'
    BY DEF TypeOK, Steps, Phase, Serving, Marker, Entry
  <1>2. Leases'
    BY DEF TypeOK, Leases, Serving, Deciding, Marker
  <1>3. Listed'
    BY DEF TypeOK, Listed
  <1>4. Made'
    BY DEF TypeOK, Made, Serving
  <1>5. Stamps'
    BY DEF TypeOK, Stamps, Serving, Over, Marker
  <1>6. Chosen'
    BY DEF TypeOK, Chosen, Over, Marker, Overdue, LastSign
  <1>7. Closing'
    BY DEF TypeOK, Closing, Serving
  <1>8. QED
    BY <1>1, <1>2, <1>3, <1>4, <1>5, <1>6, <1>7

\* The service is over, the session is still the owner's.
LEMMA StopStep ==
    ASSUME IInv, NEW p \in Process, Stop(p)
    PROVE  IInv'
  <1> USE DEF IInv, Stop, Goto, scan
  <1>1. TypeOK'
    BY DEF TypeOK, Steps, Phase, Serving, Marker, Entry
  <1>2. Leases'
    BY DEF TypeOK, Leases, Serving, Deciding, Marker
  <1>3. Listed'
    BY DEF TypeOK, Listed
  <1>4. Made'
    BY DEF TypeOK, Made, Serving
  <1>5. Stamps'
    BY DEF TypeOK, Stamps, Serving, Over, Marker
  <1>6. Chosen'
    BY SMTT(20) DEF TypeOK, Chosen, Over, Marker, Overdue, LastSign
  <1>7. Closing'
    BY DEF TypeOK, Closing, Serving
  <1>8. QED
    BY <1>1, <1>2, <1>3, <1>4, <1>5, <1>6, <1>7

\* The lease goes when no call is left.
LEMMA ReleaseStep ==
    ASSUME IInv, NEW p \in Process, Release(p)
    PROVE  IInv'
  <1> USE TtlAssumption DEF IInv, Release, Goto, Locked, scan
  <1>1. TypeOK'
    BY DEF TypeOK, Steps, Phase, Serving, Marker, Entry
  <1>2. Leases'
    BY NoneAssumption, TtlAssumption
    DEF TypeOK, Leases, Listed, Made, Stamps, Chosen, Closing, Serving, Deciding, Marker,
        Over
  <1>3. Listed'
    BY DEF TypeOK, Listed
  <1>4. Made'
    BY DEF TypeOK, Made, Serving
  <1>5. Stamps'
    BY DEF TypeOK, Stamps, Serving, Over, Marker
  <1>6. Chosen'
    BY DEF TypeOK, Chosen, Over, Marker, Overdue, LastSign
  <1>7. Closing'
    BY DEF TypeOK, Closing, Serving
  <1>8. QED
    BY <1>1, <1>2, <1>3, <1>4, <1>5, <1>6, <1>7

\* Time only makes more overdue.
LEMMA TickStep ==
    ASSUME IInv, Tick
    PROVE  IInv'
  <1> USE DEF IInv, Tick, scan
  <1>1. TypeOK'
    BY DEF TypeOK, Steps, Phase, Serving, Marker, Entry
  <1>2. Leases'
    BY DEF TypeOK, Leases, Serving, Deciding, Marker
  <1>3. Listed'
    BY DEF TypeOK, Listed
  <1>4. Made'
    BY DEF TypeOK, Made, Serving
  <1>5. Stamps'
    BY DEF TypeOK, Stamps, Serving, Over, Marker
  <1>6. Chosen'
    <2>1. \A d \in Process : d \in Overdue => d \in Overdue'
      BY <1>1, OverdueKept DEF TypeOK, LastSign
    <2>2. QED
      BY <2>1 DEF TypeOK, Chosen, Marker, LastSign
  <1>7. Closing'
    BY DEF TypeOK, Closing, Serving
  <1>8. QED
    BY <1>1, <1>2, <1>3, <1>4, <1>5, <1>6, <1>7

\* A creation that fails gives its lease up before its files.
LEMMA CreateFailsStep ==
    ASSUME IInv, NEW p \in Process, CreateFails(p)
    PROVE  IInv'
  <1>1. /\ pc' = [pc EXCEPT ![p] = "undo"]
        /\ clock' = clock /\ began' = began /\ todo' = todo /\ hand' = hand /\ at' = at
        /\ writing' = writing /\ closed' = closed /\ told' = told
    BY DEF CreateFails, Goto, scan
  <1>2. CASE /\ pc[p] = "mark" /\ TouchFailed(p, "live") /\ Locked(p, None)
    <2>1. Touch(p, "live") \/ (files' = files /\ stamp' = stamp)
      BY <1>2 DEF TouchFailed
    <2>2. holder' = [holder EXCEPT ![p] = None]
      BY <1>2 DEF Locked
    <2>3. writing' = [writing EXCEPT ![p] = FALSE]
      <3>1. writing[p] = FALSE
        BY <1>2 DEF IInv, Closing, Serving, TypeOK
      <3>2. QED
        BY <1>1, <3>1 DEF IInv, TypeOK
    <2>4. QED
      BY <1>1, <1>2, <2>1, <2>2, <2>3, OwnerStep DEF IInv, TypeOK, Serving, Marker
  <1>3. CASE pc[p] \in {"lease", "lock"} /\ UNCHANGED <<files, stamp, holder>>
    <2>1. /\ pc' \in [Process -> Phase] /\ pc'[p] = "undo"
          /\ \A d \in Process \ {p} : pc'[d] = pc[d]
      BY <1>1 DEF IInv, TypeOK, Phase
    <2>2. TypeOK'
      BY <1>1, <1>3, <2>1 DEF IInv, TypeOK
    <2>3. \A d \in Process : d \in Overdue => d \in Overdue'
      <3>1. \A d \in Process : LastSign(d)' = LastSign(d)
        BY <1>3 DEF LastSign
      <3>2. QED
        BY <1>1, <2>1, <2>2, <3>1, OverdueKept DEF IInv, TypeOK
    <2>4. Leases'
      BY <1>1, <1>3, <2>1 DEF IInv, Leases, Serving
    <2>5. Listed'
      BY <1>1, <1>3, <2>1 DEF IInv, Listed
    <2>6. Made' /\ Closing'
      BY <1>1, <1>3, <2>1 DEF IInv, Made, Closing, Serving
    <2>7. Stamps'
      BY <1>1, <1>3, <2>1 DEF IInv, Stamps, Serving, Over
    <2>8. Chosen'
      BY <1>1, <1>3, <2>1, <2>3 DEF IInv, Chosen, TypeOK, Over, Marker
    <2>9. QED
      BY <2>2, <2>4, <2>5, <2>6, <2>7, <2>8 DEF IInv
  <1>4. QED
    BY <1>2, <1>3 DEF CreateFails

\* Every step keeps the invariant.
LEMMA NextStep == IInv /\ [Next]_vars => IInv'
  <1> SUFFICES ASSUME IInv, [Next]_vars
               PROVE  IInv'
    OBVIOUS
  <1>1. CASE UNCHANGED vars
    <2>1. /\ clock' = clock /\ pc' = pc /\ began' = began /\ todo' = todo /\ hand' = hand
          /\ at' = at /\ files' = files /\ stamp' = stamp /\ holder' = holder
          /\ writing' = writing /\ closed' = closed /\ told' = told
      BY <1>1 DEF vars, scan
    <2>2. Overdue' = Overdue
      BY <2>1 DEF Overdue, LastSign
    <2>3. QED
      BY <2>1, <2>2 DEF IInv, TypeOK, Leases, Listed, Made, Stamps, Chosen, Closing
  <1>2. CASE Tick
    BY <1>2, TickStep
  <1>3. ASSUME NEW p \in Process,
               \/ Start(p) \/ Clean(p) \/ Fail(p) \/ Create(p) \/ CreateFails(p)
               \/ Heartbeat(p) \/ BeginWrite(p) \/ EndWrite(p)
               \/ Disconnect(p) \/ Stop(p) \/ Finish(p) \/ Release(p) \/ Crash(p)
        PROVE  IInv'
    <2>1. CASE Clean(p)
      BY <2>1, PickStep, RemoveEntryStep, RemoveLastStep, TryAcquireStep, EndingSteps,
         ChooseMarkerStep, JudgeStep, ScannedStep DEF Clean
    <2>2. CASE Create(p)
      BY <2>2, MakeDirectoriesStep, MakeLeaseStep, LockLeaseStep, MarkLiveStep DEF Create
    <2>3. CASE Heartbeat(p) \/ Disconnect(p) \/ Finish(p) \/ CreateFails(p)
      BY <2>3, HeartbeatStep, DisconnectStep, FinishStep, CreateFailsStep
    <2>4. CASE Start(p) \/ Stop(p) \/ Release(p) \/ BeginWrite(p) \/ EndWrite(p)
      BY <2>4, StartStep, StopStep, ReleaseStep, BeginWriteStep, EndWriteStep
    <2>5. CASE Fail(p) \/ Crash(p)
      BY <2>5, EndingSteps
    <2>6. QED
      BY <1>3, <2>1, <2>2, <2>3, <2>4, <2>5
  <1>4. QED
    BY <1>1, <1>2, <1>3 DEF Next

\* At every step of any number of servers: the session of a live one keeps its
\* lease and its files, its calls run under the lease, and only what is over
\* and has been for a retention is removed by others (cleanup_sessions,
\* DiskSessionStorage).
THEOREM SessionStorageKept == Spec => [](TypeOK /\ StorageKept)
  <1>1. IInv => TypeOK /\ StorageKept
    <2>1. IInv => TypeOK
      BY DEF IInv
    <2>2. IInv => LiveStorageKept
      BY DEF IInv, LiveStorageKept, Leases, Made, Serving
    <2>3. IInv => CallsUnderLease
      BY DEF IInv, CallsUnderLease, Leases, Closing
    <2>4. IInv => RetentionHonoured
      <3>1. SUFFICES ASSUME IInv, NEW c \in Process, NEW d \in Process,
                            At(c, "remove"), hand[c] = d
                     PROVE  /\ pc[d] \in {"undo", "purge", "ended"}
                            /\ \E r \in Process : /\ pc[r] # "off" /\ (r = d => closed[d])
                                                  /\ LastSign(d) + Ttl[r] <= clock
        BY DEF RetentionHonoured
      <3>2. pc[d] \in Over /\ d \in Overdue
        BY <3>1 DEF IInv, Chosen, At
      <3>3. QED
        BY <3>2 DEF Over, Overdue
    <2>5. QED
      BY <2>1, <2>2, <2>3, <2>4 DEF StorageKept
  <1>2. QED
    BY <1>1, StoreInit, NextStep, PTL DEF Spec

=============================================================================
