-------------------------- MODULE RecordCallSound --------------------------
(***************************************************************************)
(* What the wrapper delivers is current, proved for any number of tasks,   *)
(* calls and shapes, as long as nothing fails, nobody writes past the      *)
(* wrapper, nothing is swept, and every method that writes says so.  The   *)
(* runs of RecordCall show that none of the four can be dropped.           *)
(***************************************************************************)
EXTENDS RecordCallProofs

Reliable == ~MayFail /\ ~MayEdit /\ Sweepers = {} /\ Overwrite = {}

\* What call k yields on the present contents.
Current(k) == [key |-> k, data |-> source.data]

-----------------------------------------------------------------------------
(* The inductive invariant.                                                *)

DatasetThere == registered /\ source.exists

\* opidx identifies an entry, and names the table it keeps.
RowsKeyed ==
  /\ \A r, q \in rows : r.opidx = q.opidx => r = q
  /\ \A r \in rows : r.kind = "table" => r.table = r.opidx

\* A payload has its entry, but for the one an eviction is about to delete.
PayloadsOwned ==
  \A p \in payloads :
    \/ \E r \in rows : r.opidx = p.opidx
    \/ \E t \in Tasks : call[t].pc = "evictPayload" /\ call[t].row.opidx = p.opidx

\* A derived table has its entry, or is on its way to one or from one.
TablesOwned ==
  \A x \in tables :
    \/ x.place = "cache" /\ \E r \in rows : r.kind = "table" /\ r.table = x.name
    \/ x.place = "cache" /\ \E t \in Tasks :
         /\ call[t].pc \in {"evictPayload", "evictTable"}
         /\ call[t].row.kind = "table" /\ call[t].row.table = x.name
    \/ x.place = "cache" /\ \E t \in Tasks :
         call[t].pc \in {"stamp", "number", "record"} /\ call[t].table = x.name
    \/ \E t \in Tasks : call[t].pc = "txn" /\ call[t].table = x.name

\* Between an announced write and its bump the entries lie.
Dirty(c) == c.pc \in {"markNumber", "mark", "txn"} /\ c.ok /\ c.key \in Announced

\* Otherwise an entry of the present epoch leads to its call's present result.
EntriesCurrent ==
  (\A t \in Tasks : ~Dirty(call[t])) =>
    \A r \in rows : r.epoch = epoch => Reloaded(r) \subseteq {Current(r.key)}

\* The wrapper c has found an entry of its own.
FoundOwn(c) ==
  /\ c.pc \in {"fingerprint", "epoch", "evictRow", "reuse"} =>
       c.row \in rows /\ c.row.key = c.key
  /\ c.pc = "reuse" => c.row.epoch = epoch

\* The wrapper c holds nothing before the method ran, and then a result of
\* the present contents.
HoldsCurrent(c) ==
  /\ c.pc \in {"idle", "acquire", "lookup", "fingerprint", "epoch", "evictRow",
               "evictPayload", "evictTable", "reuse", "execute", "create"} => ~c.ok
  /\ c.pc \notin {"stamp", "number", "record", "payload", "deliver"} => c.kind = "none"
  /\ c.ok => c.of = Current(c.key)
  /\ c.pc \in {"stamp", "number", "record", "payload"} => c.epoch = epoch
  /\ c.pc \in {"markNumber", "mark"} => Dirty(c)
  /\ Dirty(c) => source.cols[c.key] = source.data
  /\ c.pc \in {"stamp", "number", "record"} /\ c.kind = "ref" =>
       source.cols[c.key] = source.data
  /\ c.kind \in {"actual", "ref", "table"} => c.ok
  /\ c.pc = "payload" => c.kind = "actual"
  /\ c.kind # "marker"

\* The wrapper c names its table by the number its entry will have.
NamesOwn(c) ==
  /\ c.pc \notin {"create", "txn", "stamp", "number", "record", "payload", "deliver"}
       => c.table = 0
  /\ c.pc \in {"create", "txn", "stamp", "number"} /\ c.table # 0 => IsNext(c.table)
  /\ c.pc = "record" /\ c.table # 0 => c.table = c.opidx
  /\ c.table # 0 => c.key \in Derive
  /\ c.pc = "txn" /\ ~c.ok => c.table = 0
  /\ c.pc \in {"stamp", "number", "record"} /\ c.table # 0 => c.kind = "table"
  /\ c.pc = "txn" /\ c.ok /\ c.key \in Derive => c.table # 0
  /\ c.pc \in {"stamp", "number", "record"} /\ c.kind = "table" => c.table # 0
  /\ c.pc \in {"txn", "stamp", "number", "record"} /\ c.table # 0 =>
       \A x \in tables : x.name = c.table =>
         x.of = Current(c.key) /\ (c.pc = "txn" => x.place = "upload")
  /\ c.pc = "payload" =>
       /\ \E r \in rows : r.opidx = c.opidx
       /\ \A r \in rows : r.opidx = c.opidx => r.key = c.key
       /\ \A p \in payloads : p.opidx # c.opidx

Wrappers == \A t \in Tasks : /\ FoundOwn(call[t])
                             /\ HoldsCurrent(call[t])
                             /\ NamesOwn(call[t])

Sound ==
  /\ DatasetThere
  /\ RowsKeyed
  /\ PayloadsOwned
  /\ TablesOwned
  /\ EntriesCurrent
  /\ Wrappers

Inv == TypeInv /\ LockHeld /\ OpidxFree /\ EpochInv /\ Sound

-----------------------------------------------------------------------------
(* One wrapper at a time: what a step of t means for everybody else.       *)

Local(c) == FoundOwn(c) /\ HoldsCurrent(c) /\ NamesOwn(c)

LEMMA OthersOutside ==
  ASSUME Inv, NEW t \in Tasks, WorkFrame(t)
  PROVE  /\ lock = t
         /\ \A u \in Tasks \ {t} : call'[u] = call[u] /\ call[u].pc \in {"idle", "acquire"}
  <1>1. \A u \in Tasks : call[u].pc \in Steps
    BY DEF Inv, TypeInv, TypeOK, Calls
  <1> QED BY <1>1 DEF Inv, LockHeld, WorkFrame, Others, Steps

LEMMA OthersKeep ==
  ASSUME Inv, NEW t \in Tasks, WorkFrame(t), NEW u \in Tasks \ {t}
  PROVE  Local(call[u])' /\ ~Dirty(call[u]) /\ ~Dirty(call[u])'
  <1> DEFINE c == call[u]
  <1>1. call'[u] = c /\ c.pc \in {"idle", "acquire"}
    BY OthersOutside
  <1>2. ~c.ok /\ c.kind = "none" /\ c.table = 0
    BY <1>1 DEF Inv, Sound, Wrappers, HoldsCurrent, NamesOwn
  <1>3. call'[u].pc \in {"idle", "acquire"} /\ ~call'[u].ok
        /\ call'[u].kind = "none" /\ call'[u].table = 0
    BY <1>1, <1>2
  <1> HIDE DEF c
  <1>4. FoundOwn(call[u])'
    BY <1>3 DEF FoundOwn
  <1>5. HoldsCurrent(call[u])'
    BY <1>3 DEF HoldsCurrent, Dirty
  <1>6. NamesOwn(call[u])'
    BY <1>3 DEF NamesOwn
  <1>7. ~Dirty(call[u]) /\ ~Dirty(call[u])'
    BY <1>1, <1>2, <1>3 DEF Dirty, c
  <1> QED BY <1>4, <1>5, <1>6, <1>7 DEF Local

LEMMA WrappersKeep ==
  ASSUME Inv, NEW t \in Tasks, WorkFrame(t), Local(call[t])'
  PROVE  Wrappers'
  BY OthersKeep DEF Wrappers, Local

\* Steps that read the store and write only the wrapper's variables.
Quiet(t) ==
  /\ UNCHANGED <<rows, payloads, tables, source, epoch>>
  /\ Dirty(call[t]) => Dirty(call'[t])
  /\ call[t].pc \notin {"evictPayload", "evictTable", "txn", "record"}
  /\ call[t].pc \in {"stamp", "number"} =>
       call'[t].pc \in {"stamp", "number", "record"} /\ call'[t].table = call[t].table

LEMMA QuietSound ==
  ASSUME Inv, NEW t \in Tasks, WorkFrame(t), Quiet(t), Local(call[t])'
  PROVE  Sound'
  <1> USE DEF Inv, Sound
  <1>1. DatasetThere' /\ RowsKeyed'
    BY DEF DatasetThere, RowsKeyed, Quiet, WorkFrame
  <1>2. PayloadsOwned'
    BY OthersOutside DEF PayloadsOwned, Quiet
  <1>3. TablesOwned'
    <2> SUFFICES ASSUME NEW x \in tables
                 PROVE  \/ x.place = "cache" /\ \E r \in rows : r.kind = "table" /\ r.table = x.name
                        \/ x.place = "cache" /\ \E u \in Tasks :
                             /\ call'[u].pc \in {"evictPayload", "evictTable"}
                             /\ call'[u].row.kind = "table" /\ call'[u].row.table = x.name
                        \/ x.place = "cache" /\ \E u \in Tasks :
                             call'[u].pc \in {"stamp", "number", "record"} /\ call'[u].table = x.name
                        \/ \E u \in Tasks : call'[u].pc = "txn" /\ call'[u].table = x.name
      BY DEF TablesOwned, Quiet
    <2>1. \A u \in Tasks \ {t} : call[u].pc \in {"idle", "acquire"}
      BY OthersOutside
    <2>2. \/ x.place = "cache" /\ \E r \in rows : r.kind = "table" /\ r.table = x.name
          \/ /\ x.place = "cache"
             /\ call[t].pc \in {"stamp", "number"} /\ call[t].table = x.name
      BY <2>1 DEF TablesOwned, Quiet
    <2> QED BY <2>2 DEF Quiet
  <1>4. EntriesCurrent'
    <2> SUFFICES ASSUME \A u \in Tasks : ~Dirty(call[u])', NEW r \in rows,
                        r.epoch = epoch
                 PROVE  Reloaded(r)' \subseteq {Current(r.key)'}
      BY DEF EntriesCurrent, Quiet
    <2>1. \A u \in Tasks : ~Dirty(call[u])
      BY OthersKeep DEF Quiet, Dirty
    <2>2. Reloaded(r) \subseteq {Current(r.key)}
      BY <2>1 DEF EntriesCurrent
    <2>3. Reloaded(r)' = Reloaded(r) /\ Current(r.key)' = Current(r.key)
      BY DEF Reloaded, Current, Quiet
    <2> QED BY <2>2, <2>3
  <1>5. Wrappers'
    BY WrappersKeep
  <1> QED BY <1>1, <1>2, <1>3, <1>4, <1>5

-----------------------------------------------------------------------------
(* Lookup and replay.                                                      *)

LEMMA LocalNow ==
  ASSUME Inv, NEW t \in Tasks
  PROVE  Local(call[t]) /\ call[t] \in Calls /\ DatasetThere
  BY DEF Inv, Sound, Wrappers, Local, TypeInv, TypeOK

\* A wrapper that has not run its method yet and does not now.
Waits(c, d) ==
  /\ c.pc \in {"lookup", "fingerprint", "epoch", "evictRow", "evictPayload",
              "evictTable", "reuse", "execute"}
  /\ d.pc \in {"fingerprint", "epoch", "evictRow", "evictPayload",
              "evictTable", "reuse", "execute"}
  /\ d.key = c.key /\ d.ok = c.ok /\ d.of = c.of /\ d.kind = c.kind
  /\ d.table = c.table

LEMMA WaitsLocal ==
  ASSUME Inv, NEW t \in Tasks, Waits(call[t], call'[t]), FoundOwn(call[t])'
  PROVE  Local(call[t])' /\ ~Dirty(call[t]) /\ ~Dirty(call[t])'
  <1>1. ~call[t].ok /\ call[t].kind = "none" /\ call[t].table = 0
    BY LocalNow DEF Local, HoldsCurrent, NamesOwn, Waits
  <1>2. HoldsCurrent(call[t])'
    BY <1>1 DEF HoldsCurrent, Waits, Dirty
  <1>3. NamesOwn(call[t])'
    BY <1>1 DEF NamesOwn, Waits
  <1> QED BY <1>1, <1>2, <1>3 DEF Local, Dirty, Waits

LEMMA LookupSound ==
  ASSUME Inv, NEW t \in Tasks, Lookup(t)
  PROVE  Sound'
  <1>1. WorkFrame(t)
    BY WorkFrameHolds DEF Inv, Work, Replay
  <1>2. call[t] \in Calls /\ TypeInv
    BY LocalNow DEF Inv
  <1>3. CASE \E r \in rows : /\ IsTopRow(r, call[t].key)
                             /\ Goto(t, [call[t] EXCEPT !.pc = "fingerprint", !.row = r])
    <2>1. PICK r \in rows : /\ IsTopRow(r, call[t].key)
                            /\ Goto(t, [call[t] EXCEPT !.pc = "fingerprint", !.row = r])
      BY <1>3
    <2>2. call'[t] = [call[t] EXCEPT !.pc = "fingerprint", !.row = r]
      BY <1>2, <2>1, GotoFrame
    <2>3. Waits(call[t], call'[t]) /\ call'[t].pc = "fingerprint" /\ call'[t].row = r
      BY <1>2, <2>2 DEF Waits, Calls, Lookup
    <2>4. r.key = call'[t].key /\ rows' = rows
      BY <2>1, <2>3 DEF IsTopRow, Visible, Lookup, Waits
    <2>5. FoundOwn(call[t])'
      BY <2>3, <2>4 DEF FoundOwn
    <2> QED BY <1>1, <2>3, <2>5, WaitsLocal, QuietSound DEF Quiet, Lookup
  <1>4. CASE Goto(t, [call[t] EXCEPT !.pc = "execute"])
    <2>1. call'[t] = [call[t] EXCEPT !.pc = "execute"]
      BY <1>2, <1>4, GotoFrame
    <2>2. Waits(call[t], call'[t]) /\ call'[t].pc = "execute"
      BY <1>2, <2>1 DEF Waits, Calls, Lookup
    <2>3. FoundOwn(call[t])'
      BY <2>2 DEF FoundOwn
    <2> QED BY <1>1, <2>2, <2>3, WaitsLocal, QuietSound DEF Quiet, Lookup
  <1> QED BY <1>3, <1>4 DEF Lookup

LEMMA CheckFingerprintSound ==
  ASSUME Inv, NEW t \in Tasks, CheckFingerprint(t)
  PROVE  Sound'
  <1>1. WorkFrame(t)
    BY WorkFrameHolds DEF Inv, Work, Replay
  <1>2. call[t] \in Calls /\ TypeInv /\ FoundOwn(call[t])
    BY LocalNow DEF Inv, Local
  <1>3. \/ call'[t] = [call[t] EXCEPT !.pc = "execute", !.row = NoRow]
        \/ call'[t] = [call[t] EXCEPT !.pc = "evictRow"]
        \/ call'[t] = [call[t] EXCEPT !.pc = "epoch"]
    BY <1>2, GotoFrame DEF CheckFingerprint
  <1>4. /\ Waits(call[t], call'[t])
        /\ \/ call'[t].pc = "execute"
           \/ call'[t].pc \in {"evictRow", "epoch"} /\ call'[t].row = call[t].row
    BY <1>2, <1>3 DEF Waits, Calls, CheckFingerprint
  <1>5. FoundOwn(call[t])'
    BY <1>2, <1>4 DEF FoundOwn, CheckFingerprint, Waits
  <1> QED BY <1>1, <1>4, <1>5, WaitsLocal, QuietSound DEF Quiet, CheckFingerprint

LEMMA CheckEpochSound ==
  ASSUME Inv, Reliable, NEW t \in Tasks, CheckEpoch(t)
  PROVE  Sound'
  <1>1. WorkFrame(t)
    BY WorkFrameHolds DEF Inv, Work, Replay
  <1>2. call[t] \in Calls /\ TypeInv /\ FoundOwn(call[t]) /\ registered
    BY LocalNow DEF Inv, Local, DatasetThere
  <1>3. call'[t] = [call[t] EXCEPT
                      !.pc = IF epoch > call[t].row.epoch THEN "evictRow" ELSE "reuse"]
    <2>1. \A e : ReadsEpoch(e) => e = epoch
      BY <1>2 DEF ReadsEpoch, CurrentEpoch, Reliable
    <2> QED BY <1>2, <2>1, GotoFrame DEF CheckEpoch
  <1>4. /\ Waits(call[t], call'[t])
        /\ call'[t].row = call[t].row
        /\ \/ call'[t].pc = "evictRow"
           \/ call'[t].pc = "reuse" /\ ~(epoch > call[t].row.epoch)
    BY <1>2, <1>3 DEF Waits, Calls, CheckEpoch
  <1>5. call[t].row \in rows /\ call[t].row.key = call[t].key
    BY <1>2 DEF FoundOwn, CheckEpoch
  <1>6. call[t].row.epoch \in Nat /\ epoch \in Nat /\ call[t].row.epoch <= epoch
    BY <1>2, <1>5 DEF Inv, EpochInv, TypeInv, TypeOK, Rows
  <1>7. FoundOwn(call[t])'
    BY <1>4, <1>5, <1>6 DEF FoundOwn, CheckEpoch, Waits
  <1> QED BY <1>1, <1>4, <1>7, WaitsLocal, QuietSound DEF Quiet, CheckEpoch

LEMMA ReuseSound ==
  ASSUME Inv, Reliable, NEW t \in Tasks, Reuse(t)
  PROVE  Sound'
  <1>1. WorkFrame(t)
    BY WorkFrameHolds DEF Inv, Work, Replay
  <1>2. call[t] \in Calls /\ TypeInv /\ FoundOwn(call[t]) /\ HoldsCurrent(call[t])
        /\ NamesOwn(call[t])
    BY LocalNow DEF Inv, Local
  <1>3. CASE \E c \in Reloaded(call[t].row) :
               Goto(t, [call[t] EXCEPT !.pc = "deliver", !.ok = TRUE, !.of = c,
                                       !.row = NoRow])
    <2>1. PICK c \in Reloaded(call[t].row) :
            call'[t] = [call[t] EXCEPT !.pc = "deliver", !.ok = TRUE, !.of = c,
                                       !.row = NoRow]
      BY <1>2, <1>3, GotoFrame
    <2>2. call[t].row \in rows /\ call[t].row.key = call[t].key
          /\ call[t].row.epoch = epoch
      BY <1>2 DEF FoundOwn, Reuse
    <2>3. \A u \in Tasks : ~Dirty(call[u])
      BY <1>1, OthersKeep DEF Dirty, Reuse
    <2>4. c = Current(call[t].key)
      BY <2>1, <2>2, <2>3 DEF Inv, Sound, EntriesCurrent
    <2>5. /\ call'[t].pc = "deliver" /\ call'[t].ok /\ call'[t].of = c
          /\ call'[t].key = call[t].key /\ call'[t].kind = call[t].kind
          /\ call'[t].table = call[t].table
      BY <1>2, <2>1 DEF Calls
    <2>6. call[t].kind = "none" /\ call[t].table = 0 /\ ~Dirty(call[t])
      BY <1>2 DEF HoldsCurrent, NamesOwn, Reuse, Dirty
    <2>7. source' = source
      BY DEF Reuse
    <2>8. FoundOwn(call[t])' /\ NamesOwn(call[t])'
      BY <2>5, <2>6 DEF FoundOwn, NamesOwn
    <2>9. HoldsCurrent(call[t])'
      BY <2>4, <2>5, <2>6, <2>7 DEF HoldsCurrent, Current, Dirty
    <2> QED BY <1>1, <2>6, <2>8, <2>9, QuietSound DEF Quiet, Reuse, Local
  <1>4. CASE Goto(t, [call[t] EXCEPT !.pc = "execute", !.row = NoRow])
    <2>1. call'[t] = [call[t] EXCEPT !.pc = "execute", !.row = NoRow]
      BY <1>2, <1>4, GotoFrame
    <2>2. Waits(call[t], call'[t]) /\ call'[t].pc = "execute"
      BY <1>2, <2>1 DEF Waits, Calls, Reuse
    <2>3. FoundOwn(call[t])'
      BY <2>2 DEF FoundOwn
    <2> QED BY <1>1, <2>2, <2>3, WaitsLocal, QuietSound DEF Quiet, Reuse
  <1> QED BY <1>3, <1>4 DEF Reuse

-----------------------------------------------------------------------------
(* Eviction: entries go, and what they lead to with them.                  *)

LEMMA EntriesShrink ==
  ASSUME Inv, NEW t \in Tasks, WorkFrame(t), ~Dirty(call[t]),
         rows' \subseteq rows, payloads' \subseteq payloads,
         tables' \subseteq tables, UNCHANGED <<source, epoch>>
  PROVE  EntriesCurrent'
  <1> SUFFICES ASSUME NEW r \in rows, r.epoch = epoch
               PROVE  Reloaded(r)' \subseteq {Current(r.key)'}
    BY DEF EntriesCurrent
  <1>1. \A u \in Tasks : ~Dirty(call[u])
    BY OthersKeep
  <1>2. Reloaded(r) \subseteq {Current(r.key)}
    BY <1>1 DEF Inv, Sound, EntriesCurrent
  <1>3. Reloaded(r)' \subseteq Reloaded(r)
    BY DEF Reloaded
  <1>4. Current(r.key)' = Current(r.key)
    BY DEF Current
  <1> QED BY <1>2, <1>3, <1>4

LEMMA EvictRowSound ==
  ASSUME Inv, NEW t \in Tasks, EvictRow(t)
  PROVE  Sound'
  <1>1. WorkFrame(t) /\ \A u \in Tasks \ {t} : call[u].pc \in {"idle", "acquire"}
    BY WorkFrameHolds, OthersOutside DEF Inv, Work, Replay
  <1>2. call[t] \in Calls /\ TypeInv /\ FoundOwn(call[t]) /\ DatasetThere
    BY LocalNow DEF Inv, Local
  <1>3. call'[t] = [call[t] EXCEPT !.pc = "evictPayload"]
    BY <1>2, GotoFrame DEF EvictRow
  <1>4. /\ Waits(call[t], call'[t]) /\ call'[t].row = call[t].row
        /\ call'[t].pc = "evictPayload"
    BY <1>2, <1>3 DEF Waits, Calls, EvictRow
  <1>5. Local(call[t])' /\ ~Dirty(call[t])
    BY <1>4, WaitsLocal DEF FoundOwn
  <1>6. RowsKeyed /\ PayloadsOwned /\ TablesOwned /\ call[t].row \in rows
    BY <1>2 DEF Inv, Sound, FoundOwn, EvictRow
  <1>7. DatasetThere' /\ RowsKeyed'
    BY <1>1, <1>2, <1>6 DEF DatasetThere, RowsKeyed, EvictRow, WorkFrame
  <1>8. PayloadsOwned'
    BY <1>1, <1>4, <1>6 DEF PayloadsOwned, EvictRow
  <1>9. TablesOwned'
    <2> SUFFICES ASSUME NEW x \in tables
                 PROVE  /\ x.place = "cache"
                        /\ \/ \E r \in rows' : r.kind = "table" /\ r.table = x.name
                           \/ call'[t].row.kind = "table" /\ call'[t].row.table = x.name
      BY <1>4 DEF TablesOwned, EvictRow
    <2>1. PICK r \in rows : x.place = "cache" /\ r.kind = "table" /\ r.table = x.name
      BY <1>1, <1>6 DEF TablesOwned, EvictRow
    <2>2. r \in rows' \/ r = call[t].row
      BY <1>6 DEF RowsKeyed, EvictRow
    <2> QED BY <1>4, <2>1, <2>2
  <1>10. EntriesCurrent'
    BY <1>1, <1>5, EntriesShrink DEF EvictRow
  <1> QED
    BY <1>1, <1>5, <1>7, <1>8, <1>9, <1>10, WrappersKeep DEF Sound

LEMMA EvictPayloadSound ==
  ASSUME Inv, NEW t \in Tasks, EvictPayload(t)
  PROVE  Sound'
  <1>1. WorkFrame(t) /\ \A u \in Tasks \ {t} : call[u].pc \in {"idle", "acquire"}
    BY WorkFrameHolds, OthersOutside DEF Inv, Work, Replay
  <1>2. call[t] \in Calls /\ TypeInv /\ DatasetThere
    BY LocalNow DEF Inv
  <1>3. call'[t] = [call[t] EXCEPT !.pc = "evictTable"]
    BY <1>2, GotoFrame DEF EvictPayload
  <1>4. /\ Waits(call[t], call'[t]) /\ call'[t].row = call[t].row
        /\ call'[t].pc = "evictTable"
    BY <1>2, <1>3 DEF Waits, Calls, EvictPayload
  <1>5. Local(call[t])' /\ ~Dirty(call[t])
    BY <1>4, WaitsLocal DEF FoundOwn
  <1>6. RowsKeyed /\ PayloadsOwned /\ TablesOwned
    BY DEF Inv, Sound
  <1>7. DatasetThere' /\ RowsKeyed'
    BY <1>1, <1>2, <1>6 DEF DatasetThere, RowsKeyed, EvictPayload, WorkFrame
  <1>8. PayloadsOwned'
    BY <1>1, <1>6 DEF PayloadsOwned, EvictPayload
  <1>9. TablesOwned'
    <2> SUFFICES ASSUME NEW x \in tables
                 PROVE  /\ x.place = "cache"
                        /\ \/ \E r \in rows : r.kind = "table" /\ r.table = x.name
                           \/ call'[t].row.kind = "table" /\ call'[t].row.table = x.name
      BY <1>4 DEF TablesOwned, EvictPayload
    <2> QED BY <1>1, <1>4, <1>6 DEF TablesOwned, EvictPayload
  <1>10. EntriesCurrent'
    BY <1>1, <1>5, EntriesShrink DEF EvictPayload
  <1> QED
    BY <1>1, <1>5, <1>7, <1>8, <1>9, <1>10, WrappersKeep DEF Sound

LEMMA EvictTableSound ==
  ASSUME Inv, Reliable, NEW t \in Tasks, EvictTable(t)
  PROVE  Sound'
  <1>1. WorkFrame(t) /\ \A u \in Tasks \ {t} : call[u].pc \in {"idle", "acquire"}
    BY WorkFrameHolds, OthersOutside DEF Inv, Work, Replay
  <1>2. call[t] \in Calls /\ TypeInv /\ DatasetThere
    BY LocalNow DEF Inv
  <1>3. call'[t] = [call[t] EXCEPT !.pc = "execute", !.row = NoRow]
    BY <1>2, GotoFrame DEF EvictTable
  <1>4. Waits(call[t], call'[t]) /\ call'[t].pc = "execute"
    BY <1>2, <1>3 DEF Waits, Calls, EvictTable
  <1>5. Local(call[t])' /\ ~Dirty(call[t])
    BY <1>4, WaitsLocal DEF FoundOwn
  <1>6. RowsKeyed /\ PayloadsOwned /\ TablesOwned
    BY DEF Inv, Sound
  <1>7. DatasetThere' /\ RowsKeyed' /\ PayloadsOwned'
    BY <1>1, <1>2, <1>6 DEF DatasetThere, RowsKeyed, PayloadsOwned, EvictTable, WorkFrame
  <1>8. tables' = IF call[t].row.kind = "table"
                    THEN tables \ At(call[t].row.table, "cache") ELSE tables
    BY DEF EvictTable, Reliable
  <1>9. TablesOwned'
    <2> SUFFICES ASSUME NEW x \in tables'
                 PROVE  x.place = "cache" /\ \E r \in rows : r.kind = "table" /\ r.table = x.name
      BY DEF TablesOwned, EvictTable
    <2>1. x \in tables /\ ~(/\ x.place = "cache" /\ call[t].row.kind = "table"
                            /\ call[t].row.table = x.name)
      BY <1>8 DEF At
    <2> QED BY <1>1, <1>6, <2>1 DEF TablesOwned, EvictTable
  <1>10. EntriesCurrent'
    BY <1>1, <1>5, <1>8, EntriesShrink DEF EvictTable
  <1> QED
    BY <1>1, <1>5, <1>7, <1>9, <1>10, WrappersKeep DEF Sound

-----------------------------------------------------------------------------
(* The method.                                                             *)

\* The keys of the five classes, told apart.
LEMMA ClassesApart ==
  ASSUME Reliable
  PROVE  /\ \A k \in Stat : k \notin Announced /\ k \notin Derive
         /\ \A k \in Announced : k \notin Derive
         /\ Announced = Writes
  BY KeysAssumption DEF Reliable, Announced, Writes

\* A wrapper whose method has just been called: nothing held, no table.
LEMMA ExecuteHolds ==
  ASSUME Inv, NEW t \in Tasks, call[t].pc = "execute"
  PROVE  ~call[t].ok /\ call[t].kind = "none" /\ call[t].table = 0
  BY LocalNow DEF Local, HoldsCurrent, NamesOwn

LEMMA ComputedMoves ==
  ASSUME Inv, NEW t \in Tasks, NEW pc, NEW d, Computed(t, pc, d)
  PROVE  /\ call'[t].pc = pc /\ call'[t].ok
         /\ call'[t].of = [key |-> call[t].key, data |-> d]
         /\ call'[t].key = call[t].key /\ call'[t].kind = call[t].kind
         /\ call'[t].table = call[t].table
  <1> DEFINE of == [key |-> call[t].key, data |-> d]
  <1>1. call[t] \in Calls /\ TypeInv
    BY LocalNow DEF Inv
  <1>2. call'[t] = [call[t] EXCEPT !.pc = pc, !.ok = TRUE, !.of = of]
    BY <1>1, GotoFrame DEF Computed
  <1> HIDE DEF of
  <1>3. /\ call'[t].pc = pc /\ call'[t].ok /\ call'[t].of = of
        /\ call'[t].key = call[t].key /\ call'[t].kind = call[t].kind
        /\ call'[t].table = call[t].table
    BY <1>1, <1>2 DEF Calls
  <1> QED BY <1>3 DEF of

LEMMA ExecuteStatSound ==
  ASSUME Inv, Reliable, NEW t \in Tasks, ExecuteStat(t)
  PROVE  Sound'
  <1>1. WorkFrame(t)
    BY WorkFrameHolds DEF Inv, Work, Execute
  <1>2. ~call[t].ok /\ call[t].kind = "none" /\ call[t].table = 0
    BY ExecuteHolds DEF ExecuteStat
  <1>3. /\ call'[t].pc = "txn" /\ call'[t].ok
        /\ call'[t].of = Current(call[t].key)
        /\ call'[t].key = call[t].key /\ call'[t].kind = "none"
        /\ call'[t].table = 0
    BY <1>2, ComputedMoves DEF ExecuteStat, Current
  <1>4. call'[t].key \notin Announced /\ call'[t].key \notin Derive
    BY <1>3, ClassesApart DEF ExecuteStat
  <1>5. source' = source
    BY DEF ExecuteStat
  <1>6. FoundOwn(call[t])' /\ NamesOwn(call[t])'
    BY <1>3, <1>4 DEF FoundOwn, NamesOwn
  <1>7. HoldsCurrent(call[t])'
    BY <1>3, <1>4, <1>5 DEF HoldsCurrent, Current, Dirty
  <1>8. ~Dirty(call[t])
    BY <1>2 DEF Dirty
  <1> QED BY <1>1, <1>6, <1>7, <1>8, QuietSound DEF Quiet, ExecuteStat, Local

\* After an announced write the entries lie until the bump, and no one looks.
LEMMA WriteSound ==
  ASSUME Inv, NEW t \in Tasks, WorkFrame(t), call[t].pc = "execute",
         call[t].key \in Announced, call[t].key \notin Derive,
         NEW pc \in {"txn", "markNumber"}, WriteSource(call[t].key),
         Computed(t, pc, source.data + 1),
         UNCHANGED <<epoch, rows, payloads, tables>>
  PROVE  Sound'
  <1>1. \A u \in Tasks \ {t} : call[u].pc \in {"idle", "acquire"}
    BY OthersOutside
  <1>2. ~call[t].ok /\ call[t].kind = "none" /\ call[t].table = 0
    BY ExecuteHolds
  <1>3. /\ call'[t].pc = pc /\ call'[t].ok
        /\ call'[t].of = [key |-> call[t].key, data |-> source.data + 1]
        /\ call'[t].key = call[t].key /\ call'[t].kind = "none"
        /\ call'[t].table = 0
    BY <1>2, ComputedMoves
  <1>4. /\ source'.data = source.data + 1 /\ source'.exists = source.exists
        /\ source'.cols[call[t].key] = source.data + 1
    <2>1. source \in Sources /\ call[t].key \in Keys
      BY DEF Inv, TypeInv, TypeOK, CallOK
    <2>2. PICK sh \in Shapes :
            source' = [source EXCEPT !.data = source.data + 1, !.shape = sh,
                        !.cols = [source.cols EXCEPT ![call[t].key] = source.data + 1]]
      BY DEF WriteSource
    <2> DEFINE cols == [source.cols EXCEPT ![call[t].key] = source.data + 1]
    <2>3. cols[call[t].key] = source.data + 1
      BY <2>1 DEF Sources
    <2>4. source' = [source EXCEPT !.data = source.data + 1, !.shape = sh,
                                   !.cols = cols]
      BY <2>2
    <2> HIDE DEF cols
    <2> QED BY <2>1, <2>3, <2>4 DEF Sources
  <1>5. Dirty(call[t])'
    BY <1>3 DEF Dirty
  <1>6. DatasetThere' /\ RowsKeyed' /\ PayloadsOwned' /\ TablesOwned'
    BY <1>1, <1>3, <1>4
    DEF Inv, Sound, DatasetThere, RowsKeyed, PayloadsOwned, TablesOwned, WorkFrame
  <1>7. EntriesCurrent'
    BY <1>5 DEF EntriesCurrent
  <1>8. FoundOwn(call[t])' /\ NamesOwn(call[t])'
    BY <1>3 DEF FoundOwn, NamesOwn
  <1>9. HoldsCurrent(call[t])'
    BY <1>3, <1>4 DEF HoldsCurrent, Current, Dirty
  <1> QED BY <1>6, <1>7, <1>8, <1>9, WrappersKeep DEF Sound, Local

LEMMA ExecuteWriteSound ==
  ASSUME Inv, Reliable, NEW t \in Tasks, ExecuteUpdate(t) \/ ExecutePublish(t)
  PROVE  Sound'
  <1>1. WorkFrame(t)
    BY WorkFrameHolds DEF Inv, Work, Execute
  <1>2. call[t].key \in Announced /\ call[t].key \notin Derive
    BY ClassesApart DEF ExecuteUpdate, ExecutePublish, Announced, Reliable
  <1> QED BY <1>1, <1>2, WriteSound DEF ExecuteUpdate, ExecutePublish

LEMMA ExecuteDeriveSound ==
  ASSUME Inv, Reliable, NEW t \in Tasks, ExecuteDerive(t)
  PROVE  Sound'
  <1>1. WorkFrame(t)
    BY WorkFrameHolds DEF Inv, Work, Execute
  <1>2. call[t] \in Calls /\ TypeInv
    BY LocalNow DEF Inv
  <1>3. ~call[t].ok /\ call[t].kind = "none"
    BY ExecuteHolds DEF ExecuteDerive
  <1>4. PICK n : /\ IsNext(n)
                 /\ call'[t] = [call[t] EXCEPT !.pc = "create", !.table = n]
    BY <1>2, GotoFrame DEF ExecuteDerive
  <1>5. /\ call'[t].pc = "create" /\ call'[t].table = n /\ ~call'[t].ok
        /\ call'[t].key \in Derive /\ call'[t].kind = "none"
    BY <1>2, <1>3, <1>4 DEF Calls, ExecuteDerive
  <1>6. IsNext(n)'
    BY <1>4 DEF IsNext, ExecuteDerive
  <1>7. FoundOwn(call[t])' /\ HoldsCurrent(call[t])'
    BY <1>5 DEF FoundOwn, HoldsCurrent, Dirty
  <1>8. NamesOwn(call[t])'
    BY <1>5, <1>6 DEF NamesOwn
  <1>9. ~Dirty(call[t])
    BY <1>3 DEF Dirty
  <1> QED BY <1>1, <1>7, <1>8, <1>9, QuietSound DEF Quiet, ExecuteDerive, Local

LEMMA ExecuteErrorSound ==
  ASSUME Inv, Reliable, NEW t \in Tasks, ExecuteError(t)
  PROVE  Sound'
  <1>1. WorkFrame(t)
    BY WorkFrameHolds DEF Inv, Work, Execute
  <1>2. call[t] \in Calls /\ TypeInv
    BY LocalNow DEF Inv
  <1>3. call[t].pc \in {"execute", "create"} /\ source' = source
    BY DEF ExecuteError, Reliable
  <1>4. ~call[t].ok /\ call[t].kind = "none"
    BY <1>3, LocalNow DEF Local, HoldsCurrent
  <1>5. call'[t] = [call[t] EXCEPT !.pc = "txn", !.table = 0]
    BY <1>2, GotoFrame DEF ExecuteError
  <1>6. /\ call'[t].pc = "txn" /\ call'[t].table = 0 /\ ~call'[t].ok
        /\ call'[t].kind = "none"
    BY <1>2, <1>4, <1>5 DEF Calls
  <1>7. FoundOwn(call[t])' /\ HoldsCurrent(call[t])' /\ NamesOwn(call[t])'
    BY <1>6 DEF FoundOwn, HoldsCurrent, NamesOwn, Dirty
  <1>8. ~Dirty(call[t])
    BY <1>4 DEF Dirty
  <1> QED BY <1>1, <1>3, <1>7, <1>8, QuietSound DEF Quiet, ExecuteError, Local

\* The marker of a publication is no table's entry, and it comes while the
\* entries lie.
LEMMA MarkSound ==
  ASSUME Inv, Reliable, NEW t \in Tasks, Mark(t)
  PROVE  Sound'
  <1> DEFINE m == [NoRow EXCEPT !.opidx = call[t].opidx, !.key = call[t].key,
                                !.kind = "marker"]
  <1>1. WorkFrame(t) /\ \A u \in Tasks \ {t} : call[u].pc \in {"idle", "acquire"}
    BY WorkFrameHolds, OthersOutside DEF Inv, Work, Execute
  <1>2. call[t] \in Calls /\ TypeInv /\ HoldsCurrent(call[t]) /\ NamesOwn(call[t])
    BY LocalNow DEF Inv, Local
  <1>3. call'[t] = [call[t] EXCEPT !.pc = "txn", !.opidx = 0]
    BY <1>2, GotoFrame DEF Mark
  <1>4. call[t].kind = "none" /\ call[t].table = 0 /\ Dirty(call[t])
    BY <1>2 DEF HoldsCurrent, NamesOwn, Mark
  <1>5. /\ call'[t].pc = "txn" /\ call'[t].table = 0 /\ call'[t].kind = "none"
        /\ call'[t].ok /\ call'[t].of = call[t].of
        /\ call'[t].key = call[t].key /\ call[t].key \in Announced
    BY <1>2, <1>3, <1>4 DEF Calls, Dirty
  <1>6. m.kind = "marker" /\ m.opidx = call[t].opidx
    BY DEF NoRow
  <1>7. rows' = rows \union {m} /\ UNCHANGED <<source, epoch, payloads, tables>>
    BY DEF Mark
  <1>8. \A r \in rows : r.opidx < call[t].opidx /\ r.opidx \in Nat
    BY DEF Inv, OpidxFree, Mark, TypeInv, TypeOK, Rows
  <1> HIDE DEF m
  <1>9. RowsKeyed'
    <2>1. \A r \in rows : r.opidx # m.opidx
      BY <1>2, <1>6, <1>8 DEF Calls
    <2> QED BY <1>6, <1>7, <2>1 DEF Inv, Sound, RowsKeyed
  <1>10. DatasetThere' /\ PayloadsOwned' /\ TablesOwned'
    BY <1>1, <1>7 DEF Inv, Sound, DatasetThere, PayloadsOwned, TablesOwned, WorkFrame, Mark
  <1>11. EntriesCurrent'
    BY <1>5 DEF EntriesCurrent, Dirty
  <1>12. HoldsCurrent(call[t])'
    BY <1>2, <1>4, <1>5, <1>7 DEF HoldsCurrent, Current, Dirty
  <1>13. FoundOwn(call[t])' /\ NamesOwn(call[t])'
    BY <1>5, ClassesApart DEF FoundOwn, NamesOwn
  <1> QED
    BY <1>1, <1>9, <1>10, <1>11, <1>12, <1>13, WrappersKeep DEF Sound, Local

\* The name a derived table is about to get belongs to no table.
LEMMA NameIsNew ==
  ASSUME Inv, NEW t \in Tasks, call[t].pc = "create"
  PROVE  /\ call[t].table # 0 /\ IsNext(call[t].table)
         /\ \A x \in tables : x.name # call[t].table
  <1>1. \A u \in Tasks \ {t} : call[u].pc \in {"idle", "acquire"}
    <2>1. lock = t /\ \A u \in Tasks : call[u].pc \in Steps
      BY DEF Inv, LockHeld, Critical, TypeInv, TypeOK, Calls
    <2> QED BY <2>1 DEF Inv, LockHeld, Steps
  <1>2. call[t].table # 0 /\ IsNext(call[t].table) /\ call[t].table \in Nat
    BY LocalNow DEF Inv, TypeInv, CallOK, Local, NamesOwn, Calls
  <1>3. ASSUME NEW x \in tables
        PROVE  x.name # call[t].table
    <2>1. PICK r \in rows : r.kind = "table" /\ r.table = x.name
      BY <1>1 DEF Inv, Sound, TablesOwned
    <2>2. r.opidx = x.name /\ r.opidx < call[t].table /\ r.opidx \in Nat
      BY <1>2, <2>1 DEF Inv, Sound, RowsKeyed, IsNext, TypeInv, TypeOK, Rows
    <2> QED BY <1>2, <2>2
  <1> QED BY <1>2, <1>3

LEMMA CreateTableSound ==
  ASSUME Inv, Reliable, NEW t \in Tasks, CreateTable(t)
  PROVE  Sound'
  <1> DEFINE of == Current(call[t].key)
             y == [name |-> call[t].table, place |-> "upload", of |-> of]
  <1>1. WorkFrame(t) /\ \A u \in Tasks \ {t} : call[u].pc \in {"idle", "acquire"}
    BY WorkFrameHolds, OthersOutside DEF Inv, Work, Execute
  <1>2. call[t] \in Calls /\ TypeInv /\ HoldsCurrent(call[t]) /\ NamesOwn(call[t])
    BY LocalNow DEF Inv, Local
  <1>3. /\ call[t].table # 0 /\ IsNext(call[t].table)
        /\ \A x \in tables : x.name # call[t].table
        /\ call[t].key \in Derive
    BY <1>2, NameIsNew DEF CreateTable, NamesOwn
  <1>4. call'[t] = [call[t] EXCEPT !.pc = "txn", !.ok = TRUE, !.of = of]
    <2>1. Goto(t, [call[t] EXCEPT !.pc = "txn", !.ok = TRUE, !.of = of])
      BY DEF CreateTable, Reliable, Current
    <2> HIDE DEF of
    <2> QED BY <1>2, <2>1, GotoFrame
  <1>5. tables' = tables \union {y} /\ UNCHANGED <<source, epoch, payloads, rows>>
    BY DEF CreateTable, Current
  <1>6. y.name = call[t].table /\ y.place = "upload" /\ y.of = of
    OBVIOUS
  <1> HIDE DEF y
  <1>7. /\ call'[t].pc = "txn" /\ call'[t].ok /\ call'[t].of = of
        /\ call'[t].key = call[t].key /\ call'[t].table = call[t].table
        /\ call'[t].kind = "none"
    <2>1. call[t].kind = "none"
      BY <1>2 DEF HoldsCurrent, CreateTable
    <2> HIDE DEF of
    <2> QED BY <1>2, <1>4, <2>1 DEF Calls
  <1>8. call'[t].key \notin Announced
    BY <1>3, <1>7, ClassesApart
  <1>9. DatasetThere' /\ RowsKeyed' /\ PayloadsOwned'
    BY <1>1, <1>5, <1>7
    DEF Inv, Sound, DatasetThere, RowsKeyed, PayloadsOwned, WorkFrame, CreateTable
  <1>10. TablesOwned'
    <2> SUFFICES ASSUME NEW x \in tables'
                 PROVE  \/ x.place = "cache" /\ \E r \in rows : r.kind = "table" /\ r.table = x.name
                        \/ call'[t].pc = "txn" /\ call'[t].table = x.name
      BY <1>5 DEF TablesOwned
    <2>1. CASE x = y
      BY <1>6, <1>7, <2>1
    <2>2. CASE x \in tables
      BY <1>1, <2>2 DEF Inv, Sound, TablesOwned, CreateTable
    <2> QED BY <1>5, <2>1, <2>2
  <1>11. EntriesCurrent'
    <2> SUFFICES ASSUME NEW r \in rows, r.epoch = epoch
                 PROVE  Reloaded(r)' \subseteq {Current(r.key)'}
      BY <1>5 DEF EntriesCurrent
    <2>1. \A u \in Tasks : ~Dirty(call[u])
      BY <1>1, OthersKeep DEF Dirty, CreateTable
    <2>2. Reloaded(r) \subseteq {Current(r.key)}
      BY <2>1 DEF Inv, Sound, EntriesCurrent
    <2>3. Reloaded(r)' = Reloaded(r) /\ Current(r.key)' = Current(r.key)
      BY <1>5, <1>6 DEF Reloaded, Current
    <2> QED BY <2>2, <2>3
  <1>12. HoldsCurrent(call[t])'
    BY <1>5, <1>7, <1>8 DEF HoldsCurrent, Current, Dirty
  <1>13. FoundOwn(call[t])'
    BY <1>7 DEF FoundOwn
  <1>14. NamesOwn(call[t])'
    <2>1. IsNext(call[t].table)'
      BY <1>3, <1>5, <1>7 DEF IsNext
    <2>2. \A x \in tables' : x.name = call[t].table => x.of = of /\ x.place = "upload"
      BY <1>3, <1>5, <1>6
    <2>3. \A x \in tables' : x.name = call[t].table =>
            x.of = Current(call[t].key)' /\ x.place = "upload"
      BY <1>5, <1>7, <2>2 DEF Current
    <2> HIDE DEF of
    <2> QED BY <1>3, <1>5, <1>7, <2>1, <2>3 DEF NamesOwn, Current
  <1> QED
    BY <1>1, <1>9, <1>10, <1>11, <1>12, <1>13, <1>14, WrappersKeep DEF Sound, Local

-----------------------------------------------------------------------------
(* The store.                                                              *)

LEMMA StampSound ==
  ASSUME Inv, Reliable, NEW t \in Tasks, Stamp(t)
  PROVE  Sound'
  <1>1. WorkFrame(t)
    BY WorkFrameHolds DEF Inv, Work, Store
  <1>2. call[t] \in Calls /\ TypeInv /\ HoldsCurrent(call[t]) /\ NamesOwn(call[t])
    BY LocalNow DEF Inv, Local
  <1>3. \/ call'[t] = [call[t] EXCEPT !.pc = "number", !.fp = source.shape]
        \/ call'[t] = [call[t] EXCEPT !.pc = "number"]
    BY <1>2, GotoFrame DEF Stamp
  <1>4. /\ call'[t].pc = "number" /\ call'[t].key = call[t].key
        /\ call'[t].ok = call[t].ok /\ call'[t].of = call[t].of
        /\ call'[t].kind = call[t].kind /\ call'[t].table = call[t].table
        /\ call'[t].epoch = call[t].epoch
    BY <1>2, <1>3 DEF Calls
  <1>5. call[t].pc = "stamp" /\ UNCHANGED <<source, epoch, rows, tables, payloads>>
    BY DEF Stamp
  <1>6. FoundOwn(call[t])' /\ HoldsCurrent(call[t])' /\ ~Dirty(call[t])
    BY <1>2, <1>4, <1>5 DEF FoundOwn, HoldsCurrent, Dirty, Current
  <1>7. NamesOwn(call[t])'
    <2>1. call[t].table # 0 => IsNext(call[t].table)
      BY <1>2, <1>5 DEF NamesOwn
    <2>2. call[t].table # 0 => IsNext(call[t].table)'
      BY <1>4, <1>5, <2>1 DEF IsNext
    <2> QED BY <1>2, <1>4, <1>5, <2>2 DEF NamesOwn, Current
  <1> QED BY <1>1, <1>4, <1>5, <1>6, <1>7, QuietSound DEF Quiet, Local

\* MAX(opidx) + 1 is one number, whoever reads it.
LEMMA NextIsOne ==
  ASSUME TypeOK, NEW n, NEW m, IsNext(n), IsNext(m)
  PROVE  n = m
  <1>1. \A r \in rows : r.opidx \in Nat \ {0}
    BY DEF TypeOK, Rows
  <1>2. n \in Nat /\ m \in Nat
    BY <1>1 DEF IsNext
  <1>3. CASE n = 1
    <2>1. rows = {}
      BY <1>1, <1>3 DEF IsNext
    <2> QED BY <1>3, <2>1 DEF IsNext
  <1>4. ASSUME NEW r \in rows, n = r.opidx + 1
        PROVE  n = m
    <2>1. r.opidx < m /\ m # 1
      BY <1>1, <1>2 DEF IsNext
    <2>2. PICK q \in rows : m = q.opidx + 1
      BY <2>1 DEF IsNext
    <2>3. q.opidx < n
      BY DEF IsNext
    <2> QED BY <1>1, <1>4, <2>1, <2>2, <2>3
  <1> QED BY <1>3, <1>4 DEF IsNext

LEMMA PickOpidxSound ==
  ASSUME Inv, Reliable, NEW t \in Tasks, PickOpidx(t)
  PROVE  Sound'
  <1>1. WorkFrame(t)
    BY WorkFrameHolds DEF Inv, Work, Store
  <1>2. call[t] \in Calls /\ TypeInv /\ HoldsCurrent(call[t]) /\ NamesOwn(call[t])
    BY LocalNow DEF Inv, Local
  <1>3. PICK n : /\ IsNext(n)
                 /\ \/ /\ call[t].pc = "number"
                       /\ call'[t] = [call[t] EXCEPT !.pc = "record", !.opidx = n]
                    \/ /\ call[t].pc = "markNumber"
                       /\ call'[t] = [call[t] EXCEPT !.pc = "mark", !.opidx = n]
    BY <1>2, GotoFrame DEF PickOpidx
  <1>4. /\ call'[t].key = call[t].key /\ call'[t].opidx = n
        /\ call'[t].ok = call[t].ok /\ call'[t].of = call[t].of
        /\ call'[t].kind = call[t].kind /\ call'[t].table = call[t].table
        /\ call'[t].epoch = call[t].epoch
        /\ \/ call[t].pc = "number" /\ call'[t].pc = "record"
           \/ call[t].pc = "markNumber" /\ call'[t].pc = "mark"
    BY <1>2, <1>3 DEF Calls
  <1>5. UNCHANGED <<source, epoch, rows, tables, payloads>>
    BY DEF PickOpidx
  <1>6. FoundOwn(call[t])' /\ HoldsCurrent(call[t])' /\ (Dirty(call[t]) => Dirty(call'[t]))
    BY <1>2, <1>4, <1>5 DEF FoundOwn, HoldsCurrent, Dirty, Current
  <1>7. call[t].pc = "number" /\ call[t].table # 0 => call[t].table = n
    BY <1>2, <1>3, NextIsOne DEF NamesOwn, TypeInv
  <1>8. NamesOwn(call[t])'
    BY <1>2, <1>4, <1>5, <1>7 DEF NamesOwn, Current
  <1> QED BY <1>1, <1>4, <1>5, <1>6, <1>8, QuietSound DEF Quiet, Local

LEMMA DeliverSound ==
  ASSUME Inv, NEW t \in Tasks, Deliver(t)
  PROVE  Sound'
  <1>1. WorkFrame(t)
    BY WorkFrameHolds DEF Inv, Work, Store
  <1>2. call'[t] = Idle
    BY GotoFrame DEF Deliver, Inv
  <1>3. /\ call'[t].pc = "idle" /\ ~call'[t].ok /\ call'[t].kind = "none"
        /\ call'[t].table = 0
    BY <1>2 DEF Idle
  <1>4. Local(call[t])'
    BY <1>3 DEF Local, FoundOwn, HoldsCurrent, NamesOwn, Dirty
  <1> QED BY <1>1, <1>4, QuietSound DEF Quiet, Deliver, Dirty

LEMMA StorePayloadSound ==
  ASSUME Inv, NEW t \in Tasks, StorePayload(t)
  PROVE  Sound'
  <1> DEFINE p == [opidx |-> call[t].opidx, of |-> call[t].of]
  <1>1. WorkFrame(t) /\ \A u \in Tasks \ {t} : call[u].pc \in {"idle", "acquire"}
    BY WorkFrameHolds, OthersOutside DEF Inv, Work, Store
  <1>2. call[t] \in Calls /\ TypeInv /\ HoldsCurrent(call[t]) /\ NamesOwn(call[t])
    BY LocalNow DEF Inv, Local
  <1>3. call'[t] = [call[t] EXCEPT !.pc = "deliver"]
    BY <1>2, GotoFrame DEF StorePayload
  <1>4. /\ call'[t].pc = "deliver" /\ call'[t].key = call[t].key
        /\ call'[t].ok = call[t].ok /\ call'[t].of = call[t].of
        /\ call'[t].kind = call[t].kind /\ call'[t].table = call[t].table
    BY <1>2, <1>3 DEF Calls
  <1>5. /\ UNCHANGED <<source, epoch, rows, tables>>
        /\ payloads' \subseteq payloads \union {p}
    BY DEF StorePayload
  <1>6. /\ call[t].of = Current(call[t].key)
        /\ \E r \in rows : r.opidx = call[t].opidx
        /\ \A r \in rows : r.opidx = call[t].opidx => r.key = call[t].key
    BY <1>2 DEF HoldsCurrent, NamesOwn, StorePayload
  <1>7. DatasetThere' /\ RowsKeyed' /\ TablesOwned'
    BY <1>1, <1>4, <1>5
    DEF Inv, Sound, DatasetThere, RowsKeyed, TablesOwned, WorkFrame, StorePayload
  <1>8. PayloadsOwned'
    <2>1. \A q \in payloads : \E r \in rows : r.opidx = q.opidx
      BY <1>1 DEF Inv, Sound, PayloadsOwned, StorePayload
    <2> QED BY <1>5, <1>6, <2>1 DEF PayloadsOwned
  <1>9. EntriesCurrent'
    <2> SUFFICES ASSUME NEW r \in rows, r.epoch = epoch
                 PROVE  Reloaded(r)' \subseteq {Current(r.key)'}
      BY <1>5 DEF EntriesCurrent
    <2>1. \A u \in Tasks : ~Dirty(call[u])
      BY <1>1, OthersKeep DEF Dirty, StorePayload
    <2>2. Reloaded(r) \subseteq {Current(r.key)}
      BY <2>1 DEF Inv, Sound, EntriesCurrent
    <2>3. Reloaded(r)' \subseteq Reloaded(r) \union {Current(r.key)}
      <3>1. CASE r.kind = "actual"
        BY <1>5, <1>6, <3>1 DEF Reloaded
      <3>2. CASE r.kind # "actual"
        BY <1>5, <3>2 DEF Reloaded
      <3> QED BY <3>1, <3>2
    <2>4. Current(r.key)' = Current(r.key)
      BY <1>5 DEF Current
    <2> QED BY <2>2, <2>3, <2>4
  <1>10. FoundOwn(call[t])' /\ HoldsCurrent(call[t])' /\ NamesOwn(call[t])'
    BY <1>2, <1>4, <1>5 DEF FoundOwn, HoldsCurrent, NamesOwn, Current, Dirty, StorePayload
  <1> QED
    BY <1>1, <1>7, <1>8, <1>9, <1>10, WrappersKeep DEF Sound, Local

LEMMA InsertRowSound ==
  ASSUME Inv, NEW t \in Tasks, InsertRow(t)
  PROVE  Sound'
  <1> DEFINE c == call[t]
             y == [opidx |-> c.opidx, key |-> c.key, deep |-> c.deep,
                   kind |-> c.kind, fp |-> c.fp, epoch |-> c.epoch,
                   table |-> c.table]
  <1>1. WorkFrame(t) /\ \A u \in Tasks \ {t} : call[u].pc \in {"idle", "acquire"}
    BY WorkFrameHolds, OthersOutside DEF Inv, Work, Store
  <1>2. c \in Calls /\ TypeInv /\ HoldsCurrent(c) /\ NamesOwn(c) /\ c.pc = "record"
    BY LocalNow DEF Inv, Local, InsertRow
  <1>3. call'[t] = [c EXCEPT !.pc = IF c.kind = "actual" THEN "payload" ELSE "deliver"]
    BY <1>2, GotoFrame DEF InsertRow
  <1>4. /\ call'[t].pc = IF c.kind = "actual" THEN "payload" ELSE "deliver"
        /\ call'[t].key = c.key /\ call'[t].ok = c.ok /\ call'[t].of = c.of
        /\ call'[t].kind = c.kind /\ call'[t].table = c.table
        /\ call'[t].opidx = c.opidx /\ call'[t].epoch = c.epoch
    BY <1>2, <1>3 DEF Calls
  <1>5. /\ UNCHANGED <<source, epoch, payloads, tables>>
        /\ rows' = rows \union {y}
    BY DEF InsertRow
  <1>6. /\ y.opidx = c.opidx /\ y.key = c.key /\ y.kind = c.kind
        /\ y.epoch = c.epoch /\ y.table = c.table
    OBVIOUS
  <1>7. /\ \A r \in rows : r.opidx < c.opidx /\ r.opidx \in Nat
        /\ c.opidx \in Nat
    BY <1>2 DEF Inv, OpidxFree, TypeInv, TypeOK, Rows, Calls
  <1>8. \A r \in rows : r.opidx # c.opidx
    BY <1>7
  <1>9. \A p \in payloads : p.opidx # c.opidx
    BY <1>1, <1>2, <1>8 DEF Inv, Sound, PayloadsOwned
  <1>10. c.kind = "table" => c.table = c.opidx
    BY <1>2 DEF NamesOwn
  <1>11. \A x \in tables : x.name = c.table => c.kind = "table"
    <2>1. \A x \in tables : x.name # 0
      BY <1>2 DEF TypeInv, TypeOK
    <2> QED BY <1>2, <2>1 DEF NamesOwn
  <1> HIDE DEF y
  <1>12. DatasetThere' /\ RowsKeyed' /\ PayloadsOwned'
    <2>1. DatasetThere'
      BY <1>1, <1>5 DEF Inv, Sound, DatasetThere, WorkFrame
    <2>2. RowsKeyed'
      BY <1>5, <1>6, <1>8, <1>10 DEF Inv, Sound, RowsKeyed
    <2>3. PayloadsOwned'
      BY <1>1, <1>2, <1>5 DEF Inv, Sound, PayloadsOwned
    <2> QED BY <2>1, <2>2, <2>3
  <1>13. TablesOwned'
    <2> SUFFICES ASSUME NEW x \in tables
                 PROVE  x.place = "cache" /\ \E r \in rows' : r.kind = "table" /\ r.table = x.name
      BY <1>5 DEF TablesOwned
    <2>1. \/ x.place = "cache" /\ \E r \in rows : r.kind = "table" /\ r.table = x.name
          \/ x.place = "cache" /\ c.table = x.name
      BY <1>1, <1>2 DEF Inv, Sound, TablesOwned
    <2> QED BY <1>5, <1>6, <1>11, <2>1
  <1>14. EntriesCurrent'
    <2> SUFFICES ASSUME NEW r \in rows', r.epoch = epoch
                 PROVE  Reloaded(r)' \subseteq {Current(r.key)'}
      BY <1>5 DEF EntriesCurrent
    <2>1. \A u \in Tasks : ~Dirty(call[u])
      BY <1>1, <1>2, OthersKeep DEF Dirty
    <2>2. Reloaded(r)' = Reloaded(r) /\ Current(r.key)' = Current(r.key)
      BY <1>5 DEF Reloaded, Current
    <2>3. CASE r \in rows
      BY <2>1, <2>2, <2>3 DEF Inv, Sound, EntriesCurrent
    <2>4. CASE r = y
      <3>1. CASE c.kind = "actual"
        <4>1. Reloaded(r) = {}
          BY <1>6, <1>9, <2>4, <3>1 DEF Reloaded
        <4> QED BY <2>2, <4>1
      <3>2. CASE c.kind = "ref"
        <4>1. source.cols[c.key] = source.data
          BY <1>2, <3>2 DEF HoldsCurrent
        <4>2. Reloaded(r) \subseteq {Current(r.key)}
          BY <1>6, <2>4, <3>2, <4>1 DEF Reloaded, Current
        <4> QED BY <2>2, <4>2
      <3>3. CASE c.kind = "table"
        <4>1. \A x \in tables : x.name = c.table => x.of = Current(c.key)
          BY <1>2, <3>3 DEF NamesOwn
        <4>2. Reloaded(r) \subseteq {Current(r.key)}
          BY <1>6, <2>4, <3>3, <4>1 DEF Reloaded
        <4> QED BY <2>2, <4>2
      <3>4. CASE c.kind \notin {"actual", "ref", "table"}
        <4>1. Reloaded(r) = {}
          BY <1>6, <2>4, <3>4 DEF Reloaded
        <4> QED BY <2>2, <4>1
      <3> QED BY <3>1, <3>2, <3>3, <3>4
    <2> QED BY <1>5, <2>3, <2>4
  <1>15. FoundOwn(call[t])' /\ HoldsCurrent(call[t])'
    BY <1>2, <1>4, <1>5 DEF FoundOwn, HoldsCurrent, Current, Dirty
  <1>16. NamesOwn(call[t])'
    <2>1. CASE c.kind = "actual"
      BY <1>2, <1>4, <1>5, <1>6, <1>8, <1>9, <2>1 DEF NamesOwn
    <2>2. CASE c.kind # "actual"
      BY <1>2, <1>4, <2>2 DEF NamesOwn
    <2> QED BY <2>1, <2>2
  <1> QED
    BY <1>1, <1>12, <1>13, <1>14, <1>15, <1>16, WrappersKeep DEF Sound, Local

\* What the transaction block leaves of the derived tables: those of the
\* entries, and the call's own if it is stored, moved but not changed.
TablesSettle(t, c) ==
  \A x \in tables' :
    \/ x \in tables /\ x.name # call[t].table
    \/ /\ c.table # 0 /\ x.name = c.table /\ x.place = "cache"
       /\ \E y \in tables : y.name = x.name /\ y.of = x.of

\* The wrapper c, as the block leaves it, is the one it found but for the
\* kind of its entry and its table.
Settled(c, d) ==
  /\ d.pc \in {"stamp", "number"}
  /\ d.key = c.key /\ d.ok = c.ok /\ d.of = c.of
  /\ d.table \in {0, c.table}
  /\ d.kind \in {"none", "actual", "ref", "table"}
  /\ d.kind # "none" => c.ok
  /\ d.kind = "ref" => c.key \in Announced
  /\ d.kind = "table" <=> d.table # 0

LEMMA EpochStamped ==
  ASSUME Inv, Reliable, NEW t \in Tasks, NEW c \in Calls, StampEpoch(t, c),
         c.key = call[t].key, c.ok = call[t].ok, c.pc \in {"stamp", "number"}
  PROVE  /\ call'[t] = [c EXCEPT !.epoch = epoch']
         /\ epoch' = IF c.ok /\ c.key \in Announced THEN epoch + 1 ELSE epoch
  <1>1. TypeInv /\ registered
    BY LocalNow DEF Inv, DatasetThere
  <1>2. \A e : ReadsEpoch(e) => e = epoch
    BY <1>1 DEF ReadsEpoch, CurrentEpoch, Reliable
  <1>3. CASE call[t].ok /\ call[t].key \in Announced
    BY <1>1, <1>3, GotoFrame DEF StampEpoch, Reliable
  <1>4. CASE ~(call[t].ok /\ call[t].key \in Announced)
    <2>1. epoch' = epoch /\ Goto(t, [c EXCEPT !.epoch = epoch])
      BY <1>2, <1>4 DEF StampEpoch
    <2> QED BY <1>1, <1>4, <2>1, GotoFrame
  <1> QED BY <1>3, <1>4

LEMMA TxnSound ==
  ASSUME Inv, Reliable, NEW t \in Tasks, WorkFrame(t), call[t].pc = "txn",
         NEW c \in Calls, StampEpoch(t, c), Settled(call[t], c),
         TablesSettle(t, c), UNCHANGED <<source, rows, payloads>>
  PROVE  Sound'
  <1>1. \A u \in Tasks \ {t} : call[u].pc \in {"idle", "acquire"}
    BY OthersOutside
  <1>2. call[t] \in Calls /\ TypeInv /\ HoldsCurrent(call[t]) /\ NamesOwn(call[t])
    BY LocalNow DEF Inv, Local
  <1>3. /\ call'[t] = [c EXCEPT !.epoch = epoch']
        /\ epoch' = IF c.ok /\ c.key \in Announced THEN epoch + 1 ELSE epoch
    BY EpochStamped DEF Settled
  <1>4. /\ call'[t].pc = c.pc /\ call'[t].key = c.key /\ call'[t].ok = c.ok
        /\ call'[t].of = c.of /\ call'[t].kind = c.kind
        /\ call'[t].table = c.table /\ call'[t].epoch = epoch'
    <2>1. epoch' \in Nat
      BY <1>2, <1>3 DEF TypeInv, TypeOK
    <2> QED BY <1>3, <2>1 DEF Calls
  <1>5. DatasetThere' /\ RowsKeyed' /\ PayloadsOwned'
    BY <1>1 DEF Inv, Sound, DatasetThere, RowsKeyed, PayloadsOwned, WorkFrame
  <1>6. TablesOwned'
    <2> SUFFICES ASSUME NEW x \in tables'
                 PROVE  \/ x.place = "cache" /\ \E r \in rows : r.kind = "table" /\ r.table = x.name
                        \/ /\ x.place = "cache"
                           /\ call'[t].pc \in {"stamp", "number"} /\ call'[t].table = x.name
      BY DEF TablesOwned
    <2>1. CASE x \in tables /\ x.name # call[t].table
      BY <1>1, <2>1 DEF Inv, Sound, TablesOwned
    <2>2. CASE c.table # 0 /\ x.name = c.table /\ x.place = "cache"
      BY <1>4, <2>2 DEF Settled
    <2> QED BY <2>1, <2>2 DEF TablesSettle
  <1>7. EntriesCurrent'
    <2>0. \A r \in rows : r.epoch \in Nat /\ r.epoch <= epoch
      BY <1>2, LocalNow DEF Inv, EpochInv, DatasetThere, TypeInv, TypeOK, Rows
    <2>1. CASE c.ok /\ c.key \in Announced
      <3>1. epoch \in Nat /\ epoch' = epoch + 1
        BY <1>2, <1>3, <2>1 DEF TypeInv, TypeOK
      <3>2. \A r \in rows : r.epoch # epoch'
        BY <2>0, <3>1
      <3> QED BY <3>2 DEF EntriesCurrent
    <2>2. CASE ~(c.ok /\ c.key \in Announced)
      <3> SUFFICES ASSUME NEW r \in rows, r.epoch = epoch
                   PROVE  Reloaded(r)' \subseteq {Current(r.key)'}
        BY <1>3, <2>2 DEF EntriesCurrent
      <3>1. \A u \in Tasks : ~Dirty(call[u])
        BY <2>2, OthersKeep DEF Dirty, Settled
      <3>2. Reloaded(r) \subseteq {Current(r.key)}
        BY <3>1 DEF Inv, Sound, EntriesCurrent
      <3>3. Current(r.key)' = Current(r.key)
        BY DEF Current
      <3>4. Reloaded(r)' \subseteq Reloaded(r)
        <4>1. CASE r.kind = "table"
          <5>1. c.table # 0 => r.table # c.table
            <6>1. r.table = r.opidx /\ r.opidx \in Nat
              BY <1>2, <4>1 DEF Inv, Sound, RowsKeyed, TypeInv, TypeOK, Rows
            <6>2. c.table # 0 => r.opidx < c.table
              BY <1>2 DEF NamesOwn, Settled, IsNext
            <6> QED BY <6>1, <6>2 DEF Calls
          <5> QED BY <4>1, <5>1 DEF Reloaded, TablesSettle
        <4>2. CASE r.kind # "table"
          BY <4>2 DEF Reloaded
        <4> QED BY <4>1, <4>2
      <3> QED BY <3>2, <3>3, <3>4
    <2> QED BY <2>1, <2>2
  <1>8. FoundOwn(call[t])' /\ HoldsCurrent(call[t])'
    BY <1>2, <1>4 DEF FoundOwn, HoldsCurrent, Current, Dirty, Settled
  <1>9. NamesOwn(call[t])'
    <2>1. c.table # 0 => c.table = call[t].table /\ IsNext(c.table) /\ c.key \in Derive
      BY <1>2 DEF NamesOwn, Settled
    <2>2. c.table # 0 => IsNext(call[t].table)'
      <3>1. c.table # 0 => call'[t].table = c.table
        BY <1>4
      <3> QED BY <2>1, <3>1 DEF IsNext
    <2>3. c.table # 0 => \A x \in tables' : x.name = c.table => x.of = Current(c.key)
      BY <1>2, <2>1 DEF NamesOwn, Settled, TablesSettle
    <2> QED BY <1>4, <2>1, <2>2, <2>3 DEF NamesOwn, Current, Settled
  <1> QED
    BY <1>5, <1>6, <1>7, <1>8, <1>9, WrappersKeep DEF Sound, Local

\* Before the block the call's table, if there is one, is in the upload
\* schema, and no table is called 0.
LEMMA TxnTables ==
  ASSUME Inv, NEW t \in Tasks, call[t].pc = "txn"
  PROVE  /\ \A x \in tables : x.name # 0
         /\ \A x \in tables : x.name = call[t].table => x.place = "upload"
         /\ call[t].table # 0 <=> call[t].ok /\ call[t].key \in Derive
         /\ call[t].kind = "none"
  <1>1. \A x \in tables : x.name # 0
    BY DEF Inv, TypeInv, TypeOK
  <1> QED BY <1>1, LocalNow DEF Local, HoldsCurrent, NamesOwn

LEMMA StoreDeepSound ==
  ASSUME Inv, Reliable, NEW t \in Tasks, StoreDeep(t)
  PROVE  Sound'
  <1> DEFINE Stored(kind) == [call[t] EXCEPT !.pc = "stamp", !.kind = kind]
             n == call[t].table
  <1>1. WorkFrame(t)
    BY WorkFrameHolds DEF Inv, Work, Store
  <1>2. call[t] \in Calls /\ call[t].pc = "txn" /\ call[t].ok
    BY LocalNow DEF StoreDeep
  <1>3. ASSUME NEW kind \in Kinds
        PROVE  /\ Stored(kind) \in Calls
               /\ Stored(kind).pc = "stamp" /\ Stored(kind).kind = kind
               /\ Stored(kind).key = call[t].key /\ Stored(kind).ok = call[t].ok
               /\ Stored(kind).of = call[t].of /\ Stored(kind).table = n
    BY <1>2 DEF Calls, Steps, Critical
  <1>4. UNCHANGED <<source, rows, payloads>>
    BY DEF StoreDeep
  <1>5. /\ \A x \in tables : x.name # 0
        /\ \A x \in tables : x.name = n => x.place = "upload"
        /\ n # 0 <=> call[t].key \in Derive
    BY <1>2, TxnTables
  <1> HIDE DEF Stored
  <1>6. ASSUME NEW kind \in {"actual", "ref"}, StampEpoch(t, Stored(kind)),
               UNCHANGED tables, call[t].key \notin Derive,
               kind = "ref" => call[t].key \in Announced
        PROVE  Sound'
    <2>1. Settled(call[t], Stored(kind))
      BY <1>2, <1>3, <1>5, <1>6 DEF Settled, Kinds
    <2>2. TablesSettle(t, Stored(kind))
      BY <1>5, <1>6 DEF TablesSettle
    <2> QED BY <1>1, <1>2, <1>3, <1>4, <1>6, <2>1, <2>2, TxnSound DEF Kinds
  <1>7. CASE call[t].key \in Stat /\ StampEpoch(t, Stored("actual")) /\ UNCHANGED tables
    BY <1>6, <1>7, ClassesApart
  <1>8. CASE call[t].key \in Announced /\ StampEpoch(t, Stored("ref")) /\ UNCHANGED tables
    BY <1>6, <1>8, ClassesApart
  <1>9. ASSUME call[t].key \in Derive, At(n, "cache") = {},
               StampEpoch(t, Stored("table")),
               tables' = (tables \ At(n, "upload"))
                         \union {[x EXCEPT !.place = "cache"] : x \in At(n, "upload")}
        PROVE  Sound'
    <2>1. Settled(call[t], Stored("table"))
      BY <1>2, <1>3, <1>5, <1>9 DEF Settled, Kinds
    <2>2. TablesSettle(t, Stored("table"))
      <3> SUFFICES ASSUME NEW x \in tables'
                   PROVE  \/ x \in tables /\ x.name # n
                          \/ /\ x.name = n /\ x.place = "cache"
                             /\ \E y \in tables : y.name = x.name /\ y.of = x.of
        BY <1>3, <1>5, <1>9 DEF TablesSettle, Kinds
      <3>1. CASE x \in tables \ At(n, "upload")
        BY <1>5, <3>1 DEF At
      <3>2. ASSUME NEW y \in At(n, "upload"), x = [y EXCEPT !.place = "cache"]
            PROVE  x.name = n /\ x.place = "cache" /\ y \in tables
                   /\ y.name = x.name /\ y.of = x.of
        <4>1. y \in [name : Nat \ {0}, place : {"upload", "cache"}, of : Contents]
          BY <3>2 DEF At, Inv, TypeInv, TypeOK
        <4> QED BY <3>2, <4>1 DEF At
      <3> QED BY <1>9, <3>1, <3>2
    <2> QED BY <1>1, <1>2, <1>3, <1>4, <1>9, <2>1, <2>2, TxnSound DEF Kinds
  <1>10. CASE call[t].key \in Derive /\ At(n, "cache") # {}
    <2>1. \E x \in tables : x.name = n /\ x.place = "cache"
      BY <1>10 DEF At
    <2> QED BY <1>5, <2>1
  <1>11. call[t].key \notin Overwrite /\ ~MayFail
    BY DEF Reliable
  <1> QED
    BY <1>7, <1>8, <1>9, <1>10, <1>11 DEF StoreDeep, Stored

LEMMA StoreShallowSound ==
  ASSUME Inv, Reliable, NEW t \in Tasks, StoreShallow(t)
  PROVE  Sound'
  <1> DEFINE c == [call[t] EXCEPT !.pc = "number", !.table = 0]
             n == call[t].table
  <1>1. WorkFrame(t)
    BY WorkFrameHolds DEF Inv, Work, Store
  <1>2. call[t] \in Calls /\ call[t].pc = "txn" /\ call[t].ok
    BY LocalNow DEF StoreShallow
  <1>3. /\ \A x \in tables : x.name # 0
        /\ \A x \in tables : x.name = n => x.place = "upload"
        /\ n # 0 <=> call[t].key \in Derive
        /\ call[t].kind = "none"
    BY <1>2, TxnTables
  <1>4. /\ c \in Calls /\ c.pc = "number" /\ c.table = 0 /\ c.kind = "none"
        /\ c.key = call[t].key /\ c.ok = call[t].ok /\ c.of = call[t].of
    BY <1>2, <1>3 DEF Calls, Steps, Critical
  <1>5. StampEpoch(t, c) /\ UNCHANGED <<rows, payloads>>
    BY DEF StoreShallow
  <1>6. source' = source
    BY DEF StoreShallow, Reliable
  <1> HIDE DEF c
  <1>7. Settled(call[t], c)
    BY <1>4 DEF Settled
  <1>8. At(n, "cache") = {}
    BY <1>3 DEF At
  <1>9. tables' = IF call[t].key \in Derive THEN tables \ At(n, "upload") ELSE tables
    BY <1>8 DEF StoreShallow
  <1>10. TablesSettle(t, c)
    BY <1>3, <1>9 DEF TablesSettle, At
  <1> QED BY <1>1, <1>2, <1>4, <1>5, <1>6, <1>7, <1>10, TxnSound

LEMMA StoreErrorSound ==
  ASSUME Inv, Reliable, NEW t \in Tasks, StoreError(t)
  PROVE  Sound'
  <1> DEFINE pc == IF call[t].deep THEN "stamp" ELSE "number"
             c == [call[t] EXCEPT !.pc = pc]
  <1>1. WorkFrame(t)
    BY WorkFrameHolds DEF Inv, Work, Store
  <1>2. call[t] \in Calls /\ call[t].pc = "txn" /\ ~call[t].ok
    BY LocalNow DEF StoreError
  <1>3. /\ \A x \in tables : x.name # 0
        /\ call[t].table = 0 /\ call[t].kind = "none"
    BY <1>2, TxnTables
  <1>4. /\ c \in Calls /\ c.pc \in {"stamp", "number"} /\ c.table = 0 /\ c.kind = "none"
        /\ c.key = call[t].key /\ c.ok = call[t].ok /\ c.of = call[t].of
    BY <1>2, <1>3 DEF Calls, Steps, Critical
  <1>5. StampEpoch(t, c) /\ UNCHANGED <<source, rows, payloads, tables>>
    BY DEF StoreError
  <1> HIDE DEF c
  <1>6. Settled(call[t], c)
    BY <1>3, <1>4 DEF Settled
  <1>7. TablesSettle(t, c)
    BY <1>3, <1>5 DEF TablesSettle
  <1> QED BY <1>1, <1>2, <1>4, <1>5, <1>6, <1>7, TxnSound

-----------------------------------------------------------------------------
(* Steps outside the lock, and the theorems.                               *)

LEMMA OuterSound ==
  ASSUME Inv, NEW t \in Tasks, Others(t), call[t].pc \in {"idle", "acquire"},
         Local(call[t])', ~Dirty(call[t])', call'[t].pc # "txn",
         UNCHANGED <<source, registered, epoch, rows, payloads, tables>>
  PROVE  Sound'
  <1>1. \A u \in Tasks \ {t} : call'[u] = call[u]
    BY DEF Others
  <1>2. DatasetThere' /\ RowsKeyed' /\ PayloadsOwned' /\ TablesOwned'
    BY <1>1 DEF Inv, Sound, DatasetThere, RowsKeyed, PayloadsOwned, TablesOwned
  <1>3. EntriesCurrent'
    <2> SUFFICES ASSUME \A u \in Tasks : ~Dirty(call[u])', NEW r \in rows,
                        r.epoch = epoch
                 PROVE  Reloaded(r)' \subseteq {Current(r.key)'}
      BY DEF EntriesCurrent
    <2>1. \A u \in Tasks : ~Dirty(call[u])
      BY <1>1 DEF Dirty
    <2>2. Reloaded(r) \subseteq {Current(r.key)}
      BY <2>1 DEF Inv, Sound, EntriesCurrent
    <2>3. Reloaded(r)' = Reloaded(r) /\ Current(r.key)' = Current(r.key)
      BY DEF Reloaded, Current
    <2> QED BY <2>2, <2>3
  <1>4. Wrappers'
    <2> SUFFICES ASSUME NEW u \in Tasks PROVE Local(call[u])'
      BY DEF Wrappers, Local
    <2>1. CASE u # t
      <3>1. Local(call[u]) /\ call'[u] = call[u]
        BY <1>1, <2>1, LocalNow
      <3>2. FoundOwn(call[u])' /\ HoldsCurrent(call[u])'
        BY <3>1 DEF Local, FoundOwn, HoldsCurrent, Dirty, Current
      <3>3. NamesOwn(call[u])'
        BY <3>1 DEF Local, NamesOwn, IsNext, Current
      <3> QED BY <3>2, <3>3 DEF Local
    <2> QED BY <2>1
  <1> QED BY <1>2, <1>3, <1>4 DEF Sound

LEMMA BeginSound ==
  ASSUME Inv, NEW t \in Tasks, Begin(t)
  PROVE  Sound'
  <1>1. PICK k \in Keys, d \in DeepModes :
          Goto(t, [Idle EXCEPT !.pc = "acquire", !.key = k, !.deep = d])
    BY DEF Begin
  <1>2. /\ Others(t)
        /\ call'[t] = [Idle EXCEPT !.pc = "acquire", !.key = k, !.deep = d]
    BY <1>1, GotoFrame DEF Inv
  <1>3. /\ call'[t].pc = "acquire" /\ ~call'[t].ok /\ call'[t].kind = "none"
        /\ call'[t].table = 0
    BY <1>2 DEF Idle
  <1>4. Local(call[t])' /\ ~Dirty(call[t])'
    BY <1>3 DEF Local, FoundOwn, HoldsCurrent, NamesOwn, Dirty
  <1> QED BY <1>2, <1>3, <1>4, OuterSound DEF Begin

LEMMA AcquireSound ==
  ASSUME Inv, NEW t \in Tasks, Acquire(t)
  PROVE  Sound'
  <1>1. call[t] \in Calls /\ HoldsCurrent(call[t]) /\ NamesOwn(call[t])
    BY LocalNow DEF Local
  <1>2. /\ Others(t)
        /\ call'[t] = [call[t] EXCEPT !.pc = IF call[t].deep THEN "lookup" ELSE "execute"]
    BY GotoFrame DEF Acquire, Inv
  <1>3. call[t].pc = "acquire" /\ ~call[t].ok /\ call[t].kind = "none" /\ call[t].table = 0
    BY <1>1 DEF HoldsCurrent, NamesOwn, Acquire
  <1>4. /\ call'[t].pc \in {"lookup", "execute"} /\ ~call'[t].ok
        /\ call'[t].kind = "none" /\ call'[t].table = 0
    BY <1>1, <1>2, <1>3 DEF Calls
  <1>5. Local(call[t])' /\ ~Dirty(call[t])'
    BY <1>4 DEF Local, FoundOwn, HoldsCurrent, NamesOwn, Dirty
  <1> QED BY <1>2, <1>3, <1>4, <1>5, OuterSound DEF Acquire

LEMMA WorkSound ==
  ASSUME Inv, Reliable, NEW t \in Tasks, Work(t)
  PROVE  Sound'
  <1>1. CASE Replay(t)
    BY <1>1, LookupSound, CheckFingerprintSound, CheckEpochSound, EvictRowSound,
       EvictPayloadSound, EvictTableSound, ReuseSound DEF Replay
  <1>2. CASE Execute(t)
    <2>1. ~ExecuteRaise(t)
      BY LocalNow DEF ExecuteRaise, DatasetThere
    <2> QED
      BY <1>2, <2>1, ExecuteStatSound, ExecuteWriteSound, MarkSound,
         ExecuteDeriveSound, CreateTableSound, ExecuteErrorSound DEF Execute
  <1>3. CASE Store(t)
    <2>1. ~StoreMoved(t)
      BY DEF StoreMoved, Reliable
    <2> QED
      BY <1>3, <2>1, StoreDeepSound, StoreShallowSound, StoreErrorSound, StampSound,
         PickOpidxSound, InsertRowSound, StorePayloadSound, DeliverSound DEF Store
  <1> QED BY <1>1, <1>2, <1>3 DEF Work

LEMMA NextSound ==
  ASSUME Inv, Reliable, [Next]_vars
  PROVE  Sound'
  <1>1. CASE UNCHANGED vars
    BY <1>1 DEF vars, Inv, Sound, DatasetThere, RowsKeyed, PayloadsOwned,
       TablesOwned, EntriesCurrent, Wrappers, FoundOwn, HoldsCurrent, NamesOwn,
       Dirty, Current, Reloaded, IsNext
  <1>2. ASSUME NEW t \in Tasks, Begin(t) \/ Acquire(t) \/ Work(t) \/ Fail(t)
        PROVE  Sound'
    BY <1>2, BeginSound, AcquireSound, WorkSound DEF Fail, Reliable
  <1> QED BY <1>1, <1>2 DEF Next, Edit, Quiesce, Reliable

LEMMA InitSound == Init => Sound
  <1> SUFFICES ASSUME Init PROVE Sound
    OBVIOUS
  <1>1. DatasetThere
    BY DEF Init, DatasetThere
  <1>2. RowsKeyed /\ PayloadsOwned /\ TablesOwned /\ EntriesCurrent
    BY DEF Init, RowsKeyed, PayloadsOwned, TablesOwned, EntriesCurrent
  <1>3. Wrappers
    BY DEF Init, Wrappers, Idle, FoundOwn, HoldsCurrent, NamesOwn, Dirty
  <1> QED BY <1>1, <1>2, <1>3 DEF Sound

LEMMA InvAlways ==
  ASSUME Reliable
  PROVE  Spec => []Inv
  <1>1. Init => Inv
    BY InitType, InitSound DEF Inv, Init, LockHeld, OpidxFree, EpochInv, Idle, Critical
  <1>2. Inv /\ [Next]_vars => Inv'
    BY NextType, NextLockHeld, NextOpidxFree, NextEpochInv, NextSound DEF Inv
  <1> QED BY <1>1, <1>2, PTL DEF Spec

(* When nothing fails, nothing is swept, nobody writes past the wrapper    *)
(* and every writing method announces its write, what a call is given,     *)
(* computed or replayed, is what it yields on the present contents.        *)
THEOREM AnswersSafety ==
  ASSUME Reliable
  PROVE  Spec => []AnswersCurrent
  <1>1. Inv => AnswersCurrent
    BY DEF Inv, Sound, Wrappers, HoldsCurrent, Current, AnswersCurrent
  <1> QED BY <1>1, InvAlways, PTL

-----------------------------------------------------------------------------
(* The wrapper implements ReplayCache.                                     *)

\* A task that runs no call asks nothing; one that does has no answer yet.
Asking ==
  \A t \in Tasks : /\ call[t].pc = "idle" => call[t].key = NoKey
                   /\ call[t].pc # "idle" => answer[t] = NoContent

asked == [t \in Tasks |-> call[t].key]

LEMMA WorkKeeps ==
  ASSUME TypeInv, NEW t \in Tasks, Work(t), ~Deliver(t)
  PROVE  KeepsKey(t) /\ answer' = answer
  <1>1. CASE Replay(t)
    BY <1>1, ReplayMoves DEF NoNumber, Replay, Lookup, CheckFingerprint,
       CheckEpoch, EvictRow, EvictPayload, EvictTable, Reuse
  <1>2. CASE Execute(t)
    BY <1>2, ExecuteMoves DEF NoNumber, Execute, ExecuteStat, ExecuteUpdate,
       ExecutePublish, Mark, ExecuteDerive, CreateTable, ExecuteError, ExecuteRaise
  <1>3. CASE Store(t)
    <2>1. answer' = answer
      BY <1>3 DEF Store, StoreDeep, StoreMoved, StoreShallow, StoreError, Stamp,
         PickOpidx, InsertRow, StorePayload
    <2>2. CASE StoreTxn(t)
      BY <2>1, <2>2, StoreTxnStamps, StampEpochMoves DEF KeepsKey
    <2>3. CASE PickOpidx(t)
      BY <2>1, <2>3, PickMoves
    <2>4. CASE ~StoreTxn(t) /\ ~PickOpidx(t)
      BY <1>3, <2>1, <2>4, StoreMoves DEF NoNumber
    <2> QED BY <2>2, <2>3, <2>4
  <1> QED BY <1>1, <1>2, <1>3 DEF Work

\* Of the steps under the lock only a write of the source changes the data,
\* by one, and its call goes on.
LEMMA WorkData ==
  ASSUME Inv, Reliable, NEW t \in Tasks, Work(t)
  PROVE  \/ source'.data = source.data
         \/ source'.data = source.data + 1 /\ call'[t].key = call[t].key
  <1>1. CASE ExecuteUpdate(t) \/ ExecutePublish(t)
    <2>1. source \in Sources
      BY DEF Inv, TypeInv, TypeOK
    <2>2. source'.data = source.data + 1
      BY <1>1, <2>1 DEF ExecuteUpdate, ExecutePublish, WriteSource, Sources
    <2>3. call'[t].key = call[t].key
      BY <1>1, ComputedMoves DEF ExecuteUpdate, ExecutePublish
    <2> QED BY <2>2, <2>3
  <1>2. CASE Replay(t)
    BY <1>2 DEF Replay, Lookup, CheckFingerprint, CheckEpoch, EvictRow,
       EvictPayload, EvictTable, Reuse
  <1>3. CASE Execute(t) /\ ~ExecuteUpdate(t) /\ ~ExecutePublish(t)
    BY <1>3 DEF Reliable, Execute, ExecuteStat, Mark, ExecuteDerive, CreateTable,
       ExecuteError, ExecuteRaise
  <1>4. CASE Store(t)
    BY <1>4 DEF Reliable, Store, StoreDeep, StoreMoved, StoreShallow, StoreError,
       Stamp, PickOpidx, InsertRow, StorePayload, Deliver
  <1> QED BY <1>1, <1>2, <1>3, <1>4 DEF Work

LEMMA AskedMoves ==
  ASSUME TypeInv, NEW t \in Tasks, Others(t)
  PROVE  asked' = [asked EXCEPT ![t] = call'[t].key]
  BY DEF asked, Others

\* Every step is one of ReplayCache's, or changes nothing it can see.
LEMMA StepRefines ==
  ASSUME Inv, Asking, Reliable, [Next]_vars
  PROVE  Asking' /\ [Promise!Next]_(Promise!vars)
  <1> USE DEF Inv
  <1>1. ASSUME NEW t \in Tasks, Begin(t)
        PROVE  Asking' /\ Promise!Next
    <2>1. PICK k \in Keys, d \in DeepModes :
            Goto(t, [Idle EXCEPT !.pc = "acquire", !.key = k, !.deep = d])
      BY <1>1 DEF Begin
    <2>2. /\ Others(t)
          /\ call'[t] = [Idle EXCEPT !.pc = "acquire", !.key = k, !.deep = d]
      BY <2>1, GotoFrame
    <2>3. call'[t].key = k /\ call'[t].pc = "acquire"
      BY <2>2 DEF Idle
    <2>4. /\ asked' = [asked EXCEPT ![t] = k] /\ asked[t] = NoKey
          /\ answer' = [answer EXCEPT ![t] = NoContent] /\ source' = source
      BY <1>1, <2>2, <2>3, AskedMoves DEF Begin, Asking, asked
    <2>5. Promise!Ask(t, k)
      BY <2>4 DEF Promise!Ask, asked, Promise!NoContent, NoContent
    <2>6. Asking'
      BY <1>1, <2>2, <2>3, <2>4 DEF Asking, Others, TypeInv, TypeOK
    <2> QED BY <2>5, <2>6 DEF Promise!Next
  <1>2. ASSUME NEW t \in Tasks, Acquire(t)
        PROVE  Asking' /\ UNCHANGED Promise!vars
    <2>1. call[t] \in Calls
      BY DEF TypeInv, TypeOK
    <2>2. /\ Others(t)
          /\ call'[t] = [call[t] EXCEPT !.pc = IF call[t].deep THEN "lookup" ELSE "execute"]
      BY <1>2, GotoFrame DEF Acquire
    <2>3. call'[t].key = call[t].key /\ call'[t].pc \in {"lookup", "execute"}
      BY <2>1, <2>2 DEF Calls
    <2>4. asked' = asked /\ UNCHANGED <<source, answer>>
      BY <1>2, <2>2, <2>3 DEF asked, Others, Acquire
    <2>5. Asking'
      BY <1>2, <2>2, <2>3, <2>4 DEF Asking, Others, Acquire
    <2> QED BY <2>4, <2>5 DEF Promise!vars, asked
  <1>3. ASSUME NEW t \in Tasks, Deliver(t)
        PROVE  Asking' /\ Promise!Next
    <2>1. Others(t) /\ call'[t] = Idle /\ source' = source
      BY <1>3, GotoFrame DEF Deliver
    <2>2. call'[t].key = NoKey /\ call'[t].pc = "idle"
      BY <2>1 DEF Idle
    <2>3. /\ asked' = [asked EXCEPT ![t] = NoKey]
          /\ asked[t] = call[t].key /\ call[t].key \in Keys
      BY <1>3, <2>1, <2>2, AskedMoves DEF asked, Deliver, TypeInv, CallOK
    <2>4. call[t].key # NoKey
      BY <2>3, KeysAssumption
    <2>5. Asking'
      BY <1>3, <2>1, <2>2 DEF Asking, Others, Deliver, TypeInv, TypeOK
    <2>6. CASE call[t].ok
      <3>1. call[t].of = [key |-> call[t].key, data |-> source.data]
        BY <2>6, LocalNow DEF Local, HoldsCurrent, Current
      <3>2. answer' = [answer EXCEPT ![t] = [key |-> asked[t], data |-> source.data]]
        BY <1>3, <2>3, <2>6, <3>1 DEF Deliver
      <3>3. Promise!Serve(t)
        BY <2>1, <2>3, <2>4, <3>2 DEF Promise!Serve, asked
      <3> QED BY <2>5, <3>3 DEF Promise!Next
    <2>7. CASE ~call[t].ok
      <3>1. answer[t] = NoContent /\ answer \in [Tasks -> Contents]
        BY <1>3 DEF Asking, Deliver, TypeInv, TypeOK
      <3>2. answer' = answer
        BY <1>3, <2>7, <3>1 DEF Deliver
      <3>3. Promise!Abandon(t)
        BY <2>1, <2>3, <2>4, <3>2 DEF Promise!Abandon, asked
      <3> QED BY <2>5, <3>3 DEF Promise!Next
    <2> QED BY <2>6, <2>7
  <1>4. ASSUME NEW t \in Tasks, Work(t), ~Deliver(t)
        PROVE  Asking' /\ [Promise!Next]_(Promise!vars)
    <2>1. Others(t) /\ KeepsKey(t) /\ answer' = answer /\ call[t].pc # "idle"
      BY <1>4, WorkKeeps, WorkFrameHolds DEF WorkFrame, Critical
    <2>2. call[t].key \in Keys /\ call[t].key # NoKey
      BY <2>1, KeysAssumption DEF TypeInv, CallOK
    <2>3. Asking'
      BY <2>1 DEF Asking, Others, KeepsKey, Idle
    <2>4. CASE call'[t].key = call[t].key
      <3>1. asked' = asked
        BY <2>1, <2>4 DEF asked, Others
      <3>2. source'.data \in {source.data, source.data + 1}
        BY <1>4, WorkData
      <3>3. Promise!Write \/ UNCHANGED Promise!vars
        BY <2>1, <3>1, <3>2 DEF Promise!Write, Promise!vars, asked
      <3> QED BY <2>3, <3>3 DEF Promise!Next
    <2>5. CASE call'[t].key # call[t].key
      <3>1. call'[t].key = NoKey
        BY <2>1, <2>5 DEF KeepsKey, Idle
      <3>2. source'.data = source.data
        BY <1>4, <2>5, WorkData
      <3>3. asked' = [asked EXCEPT ![t] = NoKey] /\ asked[t] # NoKey
        BY <2>1, <2>2, <3>1, AskedMoves DEF asked
      <3>4. Promise!Abandon(t)
        BY <2>1, <3>2, <3>3 DEF Promise!Abandon, asked
      <3> QED BY <2>3, <3>4 DEF Promise!Next
    <2> QED BY <2>4, <2>5
  <1>5. CASE UNCHANGED vars
    BY <1>5 DEF vars, Asking, Promise!vars
  <1> QED
    BY <1>1, <1>2, <1>3, <1>4, <1>5 DEF Next, Fail, Edit, Quiesce, Reliable

(* Under the same conditions the wrapper implements ReplayCache: nobody    *)
(* can tell a dataset with the cache from one that computes every call.    *)
THEOREM PromiseRefined ==
  ASSUME Reliable
  PROVE  Spec => PromiseKept
  <1>1. Init => Promise!Init /\ Asking
    BY DEF Init, Promise!Init, Asking, Idle, NoContent, Promise!NoContent
  <1>2. Inv /\ Asking /\ [Next]_vars => Asking' /\ [Promise!Next]_(Promise!vars)
    BY StepRefines
  <1> QED BY <1>1, <1>2, InvAlways, PTL DEF Spec, PromiseKept, Promise!Spec

-----------------------------------------------------------------------------
(* The entries and what they lead to.                                      *)

\* An entry that says so has its payload, or the wrapper that inserted it is
\* about to store one.
PayloadsStored ==
  \A r \in rows : r.kind = "actual" =>
    \/ \E p \in payloads : p.opidx = r.opidx
    \/ \E t \in Tasks : call[t].pc = "payload" /\ call[t].opidx = r.opidx

\* No two tables share a name, not even one in each schema.
NamesApart == \A x, y \in tables : x.name = y.name => x = y

\* An entry that names a table has it, computed for its own call.
TablesStored ==
  \A r \in rows : r.kind = "table" =>
    \E x \in tables : x.name = r.table /\ x.place = "cache" /\ x.of.key = r.key

\* The entry an eviction took away is gone, and so is the only claim to its
\* number and to its table.
RowGone(c) ==
  c.pc \in {"evictPayload", "evictTable"} =>
    /\ \A r \in rows : r.opidx # c.row.opidx
    /\ c.row.kind = "table" => c.row.table = c.row.opidx

\* The table a wrapper is about to name in its entry is there.
HasTable(c) ==
  c.pc \in {"txn", "stamp", "number", "record"} /\ c.table # 0 =>
    \E x \in tables : x.name = c.table /\ (c.pc # "txn" => x.place = "cache")

Kept ==
  /\ PayloadsStored
  /\ NamesApart
  /\ TablesStored
  /\ \A t \in Tasks : RowGone(call[t]) /\ HasTable(call[t])

\* Only the wrapper that holds the lock has anything under way.
LEMMA OthersHoldNothing ==
  ASSUME Inv, NEW t \in Tasks, WorkFrame(t), RowGone(call[t])', HasTable(call[t])'
  PROVE  \A u \in Tasks : RowGone(call[u])' /\ HasTable(call[u])'
  <1> SUFFICES ASSUME NEW u \in Tasks \ {t}
               PROVE  RowGone(call[u])' /\ HasTable(call[u])'
    OBVIOUS
  <1>1. call'[u].pc \in {"idle", "acquire"}
    BY OthersOutside
  <1> QED BY <1>1 DEF RowGone, HasTable

\* A step that leaves the store alone.
LEMMA QuietKept ==
  ASSUME Inv, Kept, NEW t \in Tasks, WorkFrame(t), call[t].pc # "payload",
         UNCHANGED <<rows, payloads, tables>>,
         RowGone(call[t])', HasTable(call[t])'
  PROVE  Kept'
  <1>1. PayloadsStored'
    BY OthersOutside DEF Kept, PayloadsStored
  <1>2. NamesApart' /\ TablesStored'
    BY DEF Kept, NamesApart, TablesStored
  <1> QED BY <1>1, <1>2, OthersHoldNothing DEF Kept

LEMMA ReplayKept ==
  ASSUME Inv, Kept, NEW t \in Tasks,
         Lookup(t) \/ CheckFingerprint(t) \/ CheckEpoch(t) \/ Reuse(t)
  PROVE  Kept'
  <1>1. WorkFrame(t) /\ call[t] \in Calls /\ TypeInv
    BY WorkFrameHolds, LocalNow DEF Inv, Work, Replay
  <1>2. call'[t].pc \in {"fingerprint", "epoch", "evictRow", "reuse", "execute", "deliver"}
    <2>1. CASE Lookup(t)
      <3>1. PICK r : \/ call'[t] = [call[t] EXCEPT !.pc = "fingerprint", !.row = r]
                     \/ call'[t] = [call[t] EXCEPT !.pc = "execute"]
        BY <1>1, <2>1, GotoFrame DEF Lookup
      <3> QED BY <1>1, <3>1 DEF Calls
    <2>2. CASE CheckFingerprint(t)
      <3>1. \/ call'[t] = [call[t] EXCEPT !.pc = "execute", !.row = NoRow]
            \/ call'[t] = [call[t] EXCEPT !.pc = "evictRow"]
            \/ call'[t] = [call[t] EXCEPT !.pc = "epoch"]
        BY <1>1, <2>2, GotoFrame DEF CheckFingerprint
      <3> QED BY <1>1, <3>1 DEF Calls
    <2>3. CASE CheckEpoch(t)
      <3>1. PICK e : call'[t] = [call[t] EXCEPT
                       !.pc = IF e > call[t].row.epoch THEN "evictRow" ELSE "reuse"]
        BY <1>1, <2>3, GotoFrame DEF CheckEpoch
      <3> QED BY <1>1, <3>1 DEF Calls
    <2>4. CASE Reuse(t)
      <3>1. PICK c : \/ call'[t] = [call[t] EXCEPT !.pc = "deliver", !.ok = TRUE,
                                                   !.of = c, !.row = NoRow]
                     \/ call'[t] = [call[t] EXCEPT !.pc = "execute", !.row = NoRow]
        BY <1>1, <2>4, GotoFrame DEF Reuse
      <3> QED BY <1>1, <3>1 DEF Calls
    <2> QED BY <2>1, <2>2, <2>3, <2>4
  <1>3. RowGone(call[t])' /\ HasTable(call[t])'
    BY <1>2 DEF RowGone, HasTable
  <1>4. call[t].pc # "payload" /\ UNCHANGED <<rows, payloads, tables>>
    BY DEF Lookup, CheckFingerprint, CheckEpoch, Reuse
  <1> QED BY <1>1, <1>3, <1>4, QuietKept

\* The row goes first: from here on nothing else has its number.
LEMMA EvictRowKept ==
  ASSUME Inv, Kept, NEW t \in Tasks, EvictRow(t)
  PROVE  Kept'
  <1>1. WorkFrame(t) /\ \A u \in Tasks \ {t} : call[u].pc \in {"idle", "acquire"}
    BY WorkFrameHolds, OthersOutside DEF Inv, Work, Replay
  <1>2. call[t] \in Calls /\ TypeInv /\ call[t].row \in rows /\ RowsKeyed
    BY LocalNow DEF Inv, Sound, Local, FoundOwn, EvictRow
  <1>3. call'[t] = [call[t] EXCEPT !.pc = "evictPayload"]
    BY <1>2, GotoFrame DEF EvictRow
  <1>4. call'[t].pc = "evictPayload" /\ call'[t].row = call[t].row
    BY <1>2, <1>3 DEF Calls
  <1>5. /\ rows' = {r \in rows : r.opidx # call[t].row.opidx}
        /\ UNCHANGED <<payloads, tables>>
        /\ call[t].pc = "evictRow"
    BY DEF EvictRow
  <1>6. RowGone(call[t])' /\ HasTable(call[t])'
    BY <1>2, <1>4, <1>5 DEF RowGone, HasTable, RowsKeyed
  <1>7. PayloadsStored'
    BY <1>1, <1>5 DEF Kept, PayloadsStored
  <1>8. NamesApart' /\ TablesStored'
    BY <1>5 DEF Kept, NamesApart, TablesStored
  <1> QED BY <1>1, <1>6, <1>7, <1>8, OthersHoldNothing DEF Kept

LEMMA EvictPayloadKept ==
  ASSUME Inv, Kept, NEW t \in Tasks, EvictPayload(t)
  PROVE  Kept'
  <1>1. WorkFrame(t) /\ \A u \in Tasks \ {t} : call[u].pc \in {"idle", "acquire"}
    BY WorkFrameHolds, OthersOutside DEF Inv, Work, Replay
  <1>2. call[t] \in Calls /\ TypeInv /\ RowGone(call[t])
    BY LocalNow DEF Inv, Kept
  <1>3. call'[t] = [call[t] EXCEPT !.pc = "evictTable"]
    BY <1>2, GotoFrame DEF EvictPayload
  <1>4. call'[t].pc = "evictTable" /\ call'[t].row = call[t].row
    BY <1>2, <1>3 DEF Calls
  <1>5. /\ payloads' = {p \in payloads : p.opidx # call[t].row.opidx}
        /\ UNCHANGED <<rows, tables>>
        /\ call[t].pc = "evictPayload"
    BY DEF EvictPayload
  <1>6. RowGone(call[t])' /\ HasTable(call[t])'
    BY <1>2, <1>4, <1>5 DEF RowGone, HasTable
  <1>7. PayloadsStored'
    <2> SUFFICES ASSUME NEW r \in rows, r.kind = "actual"
                 PROVE  \E p \in payloads' : p.opidx = r.opidx
      BY <1>5 DEF PayloadsStored
    <2>1. PICK p \in payloads : p.opidx = r.opidx
      BY <1>1, <1>5 DEF Kept, PayloadsStored
    <2> QED BY <1>2, <1>5, <2>1 DEF RowGone
  <1>8. NamesApart' /\ TablesStored'
    BY <1>5 DEF Kept, NamesApart, TablesStored
  <1> QED BY <1>1, <1>6, <1>7, <1>8, OthersHoldNothing DEF Kept

LEMMA EvictTableKept ==
  ASSUME Inv, Kept, NEW t \in Tasks, EvictTable(t)
  PROVE  Kept'
  <1>1. WorkFrame(t) /\ \A u \in Tasks \ {t} : call[u].pc \in {"idle", "acquire"}
    BY WorkFrameHolds, OthersOutside DEF Inv, Work, Replay
  <1>2. call[t] \in Calls /\ TypeInv /\ RowGone(call[t]) /\ RowsKeyed
    BY LocalNow DEF Inv, Sound, Kept
  <1>3. call'[t] = [call[t] EXCEPT !.pc = "execute", !.row = NoRow]
    BY <1>2, GotoFrame DEF EvictTable
  <1>4. call'[t].pc = "execute"
    BY <1>2, <1>3 DEF Calls
  <1>5. /\ tables' \subseteq tables
        /\ \A x \in tables : \/ x \in tables'
                             \/ call[t].row.kind = "table" /\ x.name = call[t].row.table
        /\ UNCHANGED <<rows, payloads>>
        /\ call[t].pc = "evictTable"
    BY DEF EvictTable, At
  <1>6. RowGone(call[t])' /\ HasTable(call[t])'
    BY <1>4 DEF RowGone, HasTable
  <1>7. PayloadsStored' /\ NamesApart'
    BY <1>1, <1>5 DEF Kept, PayloadsStored, NamesApart
  <1>8. TablesStored'
    <2> SUFFICES ASSUME NEW r \in rows, r.kind = "table"
                 PROVE  \E x \in tables' : /\ x.name = r.table /\ x.place = "cache"
                                           /\ x.of.key = r.key
      BY <1>5 DEF TablesStored
    <2>1. PICK x \in tables : x.name = r.table /\ x.place = "cache" /\ x.of.key = r.key
      BY DEF Kept, TablesStored
    <2>2. x.name # call[t].row.table \/ call[t].row.kind # "table"
      BY <1>2, <1>5, <2>1 DEF RowGone, RowsKeyed
    <2> QED BY <1>5, <2>1, <2>2
  <1> QED BY <1>1, <1>6, <1>7, <1>8, OthersHoldNothing DEF Kept

\* The method leaves the store alone, but for the marker and the new table.
LEMMA ExecuteKept ==
  ASSUME Inv, Kept, Reliable, NEW t \in Tasks,
         \/ ExecuteStat(t) \/ ExecuteUpdate(t) \/ ExecutePublish(t)
         \/ ExecuteDerive(t) \/ ExecuteError(t)
  PROVE  Kept'
  <1>1. WorkFrame(t) /\ call[t] \in Calls /\ TypeInv
    BY WorkFrameHolds, LocalNow DEF Inv, Work, Execute
  <1>2. call[t].pc \in {"execute", "create"} /\ UNCHANGED <<rows, payloads, tables>>
    BY DEF ExecuteStat, ExecuteUpdate, ExecutePublish, ExecuteDerive, ExecuteError,
       Reliable
  <1>3. \/ call'[t].pc \in {"create", "markNumber"}
        \/ call'[t].pc = "txn" /\ call'[t].table = 0
    <2>1. CASE ExecuteStat(t) \/ ExecuteUpdate(t) \/ ExecutePublish(t)
      <3>1. call[t].table = 0
        BY <2>1, ExecuteHolds DEF ExecuteStat, ExecuteUpdate, ExecutePublish
      <3> QED
        BY <2>1, <3>1, ComputedMoves DEF ExecuteStat, ExecuteUpdate, ExecutePublish
    <2>2. CASE ExecuteDerive(t)
      <3>1. PICK n : call'[t] = [call[t] EXCEPT !.pc = "create", !.table = n]
        BY <1>1, <2>2, GotoFrame DEF ExecuteDerive
      <3> QED BY <1>1, <3>1 DEF Calls
    <2>3. CASE ExecuteError(t)
      <3>1. call'[t] = [call[t] EXCEPT !.pc = "txn", !.table = 0]
        BY <1>1, <2>3, GotoFrame DEF ExecuteError
      <3> QED BY <1>1, <3>1 DEF Calls
    <2> QED BY <2>1, <2>2, <2>3
  <1>4. RowGone(call[t])' /\ HasTable(call[t])'
    BY <1>3 DEF RowGone, HasTable
  <1> QED BY <1>1, <1>2, <1>4, QuietKept

\* A marker claims neither a payload nor a table.
LEMMA MarkKept ==
  ASSUME Inv, Kept, NEW t \in Tasks, Mark(t)
  PROVE  Kept'
  <1> DEFINE m == [NoRow EXCEPT !.opidx = call[t].opidx, !.key = call[t].key,
                                !.kind = "marker"]
  <1>1. WorkFrame(t) /\ \A u \in Tasks \ {t} : call[u].pc \in {"idle", "acquire"}
    BY WorkFrameHolds, OthersOutside DEF Inv, Work, Execute
  <1>2. call[t] \in Calls /\ TypeInv /\ call[t].table = 0
    BY LocalNow DEF Inv, Local, NamesOwn, Mark
  <1>3. call'[t] = [call[t] EXCEPT !.pc = "txn", !.opidx = 0]
    BY <1>2, GotoFrame DEF Mark
  <1>4. call'[t].pc = "txn" /\ call'[t].table = 0
    BY <1>2, <1>3 DEF Calls
  <1>5. rows' = rows \union {m} /\ UNCHANGED <<payloads, tables>> /\ call[t].pc = "mark"
    BY DEF Mark
  <1>6. m.kind = "marker"
    BY DEF NoRow
  <1> HIDE DEF m
  <1>7. PayloadsStored' /\ NamesApart' /\ TablesStored'
    BY <1>1, <1>5, <1>6 DEF Kept, PayloadsStored, NamesApart, TablesStored
  <1>8. RowGone(call[t])' /\ HasTable(call[t])'
    BY <1>4 DEF RowGone, HasTable
  <1> QED BY <1>1, <1>7, <1>8, OthersHoldNothing DEF Kept

\* The name of the new table is no other table's.
LEMMA CreateTableKept ==
  ASSUME Inv, Kept, Reliable, NEW t \in Tasks, CreateTable(t)
  PROVE  Kept'
  <1> DEFINE of == Current(call[t].key)
             y == [name |-> call[t].table, place |-> "upload", of |-> of]
  <1>1. WorkFrame(t) /\ \A u \in Tasks \ {t} : call[u].pc \in {"idle", "acquire"}
    BY WorkFrameHolds, OthersOutside DEF Inv, Work, Execute
  <1>2. call[t] \in Calls /\ TypeInv
    BY LocalNow DEF Inv
  <1>3. \A x \in tables : x.name # call[t].table
    BY NameIsNew DEF CreateTable
  <1>4. call'[t].pc = "txn" /\ call'[t].table = call[t].table
    <2>1. Goto(t, [call[t] EXCEPT !.pc = "txn", !.ok = TRUE, !.of = of])
      BY DEF CreateTable, Reliable, Current
    <2> HIDE DEF of
    <2>2. call'[t] = [call[t] EXCEPT !.pc = "txn", !.ok = TRUE, !.of = of]
      BY <1>2, <2>1, GotoFrame
    <2> QED BY <1>2, <2>2 DEF Calls
  <1>5. /\ tables' = tables \union {y} /\ UNCHANGED <<payloads, rows>>
        /\ call[t].pc = "create"
    BY DEF CreateTable, Current
  <1>6. y.name = call[t].table
    OBVIOUS
  <1> HIDE DEF y
  <1>7. PayloadsStored' /\ TablesStored'
    BY <1>1, <1>5 DEF Kept, PayloadsStored, TablesStored
  <1>8. NamesApart'
    BY <1>3, <1>5, <1>6 DEF Kept, NamesApart
  <1>9. RowGone(call[t])' /\ HasTable(call[t])'
    BY <1>4, <1>5, <1>6 DEF RowGone, HasTable
  <1> QED BY <1>1, <1>7, <1>8, <1>9, OthersHoldNothing DEF Kept

\* The transaction block touches no table but the call's own: the tables of
\* the entries have smaller numbers.
LEMMA TxnKept ==
  ASSUME Inv, Kept, NEW t \in Tasks, WorkFrame(t), call[t].pc = "txn",
         call'[t].pc \in {"stamp", "number"}, UNCHANGED <<rows, payloads>>,
         \A x \in tables : x \in tables' \/ (x.name = call[t].table /\ call[t].table # 0),
         NamesApart', HasTable(call[t])'
  PROVE  Kept'
  <1>1. \A u \in Tasks \ {t} : call[u].pc \in {"idle", "acquire"}
    BY OthersOutside
  <1>2. TypeInv /\ RowsKeyed /\ NamesOwn(call[t]) /\ call[t] \in Calls
    BY LocalNow DEF Inv, Sound, Local
  <1>3. PayloadsStored'
    BY <1>1 DEF Kept, PayloadsStored
  <1>4. TablesStored'
    <2> SUFFICES ASSUME NEW r \in rows, r.kind = "table"
                 PROVE  \E x \in tables' : /\ x.name = r.table /\ x.place = "cache"
                                           /\ x.of.key = r.key
      BY DEF TablesStored
    <2>1. PICK x \in tables : x.name = r.table /\ x.place = "cache" /\ x.of.key = r.key
      BY DEF Kept, TablesStored
    <2>2. r.table = r.opidx /\ r.opidx \in Nat
      BY <1>2 DEF RowsKeyed, TypeInv, TypeOK, Rows
    <2>3. call[t].table # 0 => r.opidx < call[t].table /\ call[t].table \in Nat
      BY <1>2 DEF NamesOwn, IsNext, Calls
    <2>4. x \in tables'
      BY <2>1, <2>2, <2>3
    <2> QED BY <2>1, <2>4
  <1>5. RowGone(call[t])'
    BY DEF RowGone
  <1> QED BY <1>3, <1>4, <1>5, OthersHoldNothing DEF Kept

\* A stored table moves to the cache schema under its name; nothing else moves.
LEMMA StoreDeepKept ==
  ASSUME Inv, Kept, Reliable, NEW t \in Tasks, StoreDeep(t)
  PROVE  Kept'
  <1> DEFINE Stored(kind) == [call[t] EXCEPT !.pc = "stamp", !.kind = kind]
             n == call[t].table
             Moved == (tables \ At(n, "upload"))
                      \union {[x EXCEPT !.place = "cache"] : x \in At(n, "upload")}
  <1>1. WorkFrame(t)
    BY WorkFrameHolds DEF Inv, Work, Store
  <1>2. call[t] \in Calls /\ call[t].pc = "txn" /\ call[t].ok
    BY LocalNow DEF StoreDeep
  <1>3. /\ \A x \in tables : x.name # 0
        /\ \A x \in tables : x.name = n => x.place = "upload"
        /\ n # 0 <=> call[t].key \in Derive
    BY <1>2, TxnTables
  <1>4. \E kind \in Kinds : StampEpoch(t, Stored(kind))
    BY DEF StoreDeep, Kinds, Reliable
  <1>5. call'[t].pc = "stamp" /\ call'[t].table = n
    <2>1. PICK kind \in Kinds : StampEpoch(t, Stored(kind))
      BY <1>4
    <2>2. /\ Stored(kind) \in Calls
          /\ Stored(kind).pc = "stamp" /\ Stored(kind).key = call[t].key
          /\ Stored(kind).ok = call[t].ok /\ Stored(kind).table = n
      BY <1>2 DEF Calls, Steps, Critical
    <2> HIDE DEF Stored
    <2>3. call'[t] = [Stored(kind) EXCEPT !.epoch = epoch']
      BY <2>1, <2>2, EpochStamped
    <2> QED BY <2>2, <2>3 DEF Calls
  <1> HIDE DEF Stored
  <1>6. UNCHANGED <<rows, payloads>>
    BY DEF StoreDeep
  <1>7. CASE call[t].key \notin Derive
    <2>1. tables' = tables
      BY <1>7 DEF StoreDeep
    <2>2. NamesApart' /\ HasTable(call[t])'
      BY <1>3, <1>5, <1>7, <2>1 DEF Kept, NamesApart, HasTable
    <2>3. \A x \in tables : x \in tables' \/ (x.name = n /\ n # 0)
      BY <2>1
    <2> QED BY <1>1, <1>2, <1>5, <1>6, <2>2, <2>3, TxnKept
  <1>8. CASE call[t].key \in Derive
    <2>1. At(n, "cache") = {}
      BY <1>3 DEF At
    <2>2. PICK y \in tables : y.name = n
      BY <1>2, <1>3, <1>8 DEF Kept, HasTable
    <2>3. tables' = Moved
      BY <1>8, <2>1, ClassesApart DEF StoreDeep, Reliable, Writes
    <2>4. At(n, "upload") = {y}
      BY <1>3, <2>2 DEF Kept, NamesApart, At
    <2>5. PICK z : z = [y EXCEPT !.place = "cache"]
      OBVIOUS
    <2>6. z.name = n /\ z.place = "cache"
      <3>1. y \in [name : Nat \ {0}, place : {"upload", "cache"}, of : Contents]
        BY DEF Inv, TypeInv, TypeOK
      <3> QED BY <2>2, <2>5, <3>1
    <2>7. tables' = (tables \ {y}) \union {z}
      BY <2>3, <2>4, <2>5
    <2>8. \A x \in tables : x \in tables' \/ (x.name = n /\ n # 0)
      BY <1>3, <1>8, <2>2, <2>7
    <2>9. NamesApart'
      BY <2>2, <2>6, <2>7 DEF Kept, NamesApart
    <2>10. HasTable(call[t])'
      BY <1>5, <2>6, <2>7 DEF HasTable
    <2> QED BY <1>1, <1>2, <1>5, <1>6, <2>8, <2>9, <2>10, TxnKept
  <1> QED BY <1>7, <1>8

LEMMA StoreShallowKept ==
  ASSUME Inv, Kept, Reliable, NEW t \in Tasks, StoreShallow(t)
  PROVE  Kept'
  <1> DEFINE c == [call[t] EXCEPT !.pc = "number", !.table = 0]
             n == call[t].table
  <1>1. WorkFrame(t)
    BY WorkFrameHolds DEF Inv, Work, Store
  <1>2. call[t] \in Calls /\ call[t].pc = "txn" /\ call[t].ok
    BY LocalNow DEF StoreShallow
  <1>3. n # 0 <=> call[t].key \in Derive
    BY <1>2, TxnTables
  <1>4. c \in Calls /\ c.pc = "number" /\ c.table = 0 /\ c.key = call[t].key
        /\ c.ok = call[t].ok
    BY <1>2 DEF Calls, Steps, Critical
  <1>5. StampEpoch(t, c) /\ UNCHANGED <<rows, payloads>>
    BY DEF StoreShallow
  <1> HIDE DEF c
  <1>6. call'[t].pc = "number" /\ call'[t].table = 0
    <2>1. call'[t] = [c EXCEPT !.epoch = epoch']
      BY <1>4, <1>5, EpochStamped
    <2> QED BY <1>4, <2>1 DEF Calls
  <1>7. /\ tables' \subseteq tables
        /\ \A x \in tables : x \in tables' \/ (x.name = n /\ n # 0)
    BY <1>3 DEF StoreShallow, At
  <1>8. NamesApart' /\ HasTable(call[t])'
    BY <1>6, <1>7 DEF Kept, NamesApart, HasTable
  <1> QED BY <1>1, <1>2, <1>5, <1>6, <1>7, <1>8, TxnKept

LEMMA StoreErrorKept ==
  ASSUME Inv, Kept, Reliable, NEW t \in Tasks, StoreError(t)
  PROVE  Kept'
  <1> DEFINE pc == IF call[t].deep THEN "stamp" ELSE "number"
             c == [call[t] EXCEPT !.pc = pc]
  <1>1. WorkFrame(t)
    BY WorkFrameHolds DEF Inv, Work, Store
  <1>2. call[t] \in Calls /\ call[t].pc = "txn" /\ ~call[t].ok
    BY LocalNow DEF StoreError
  <1>3. call[t].table = 0
    BY <1>2, TxnTables
  <1>4. c \in Calls /\ c.pc \in {"stamp", "number"} /\ c.table = 0
        /\ c.key = call[t].key /\ c.ok = call[t].ok
    BY <1>2, <1>3 DEF Calls, Steps, Critical
  <1>5. StampEpoch(t, c) /\ UNCHANGED <<rows, payloads, tables>>
    BY DEF StoreError
  <1> HIDE DEF c
  <1>6. call'[t].pc \in {"stamp", "number"} /\ call'[t].table = 0
    <2>1. call'[t] = [c EXCEPT !.epoch = epoch']
      BY <1>4, <1>5, EpochStamped
    <2> QED BY <1>4, <2>1 DEF Calls
  <1>7. NamesApart' /\ HasTable(call[t])'
    BY <1>5, <1>6 DEF Kept, NamesApart, HasTable
  <1>8. \A x \in tables : x \in tables' \/ (x.name = call[t].table /\ call[t].table # 0)
    BY <1>5
  <1> QED BY <1>1, <1>2, <1>5, <1>6, <1>7, <1>8, TxnKept

LEMMA NumberKept ==
  ASSUME Inv, Kept, NEW t \in Tasks, Stamp(t) \/ PickOpidx(t) \/ Deliver(t)
  PROVE  Kept'
  <1>1. WorkFrame(t) /\ call[t] \in Calls /\ TypeInv
    BY WorkFrameHolds, LocalNow DEF Inv, Work, Store
  <1>2. call[t].pc # "payload" /\ UNCHANGED <<rows, payloads, tables>>
    BY DEF Stamp, PickOpidx, Deliver
  <1>3. HasTable(call[t])
    BY DEF Kept
  <1>4. /\ call'[t].pc \in {"number", "record", "mark", "idle"}
        /\ call'[t].pc \in {"number", "record"} =>
             call[t].pc \in {"stamp", "number"} /\ call'[t].table = call[t].table
    <2>1. CASE Stamp(t)
      <3>1. \/ call'[t] = [call[t] EXCEPT !.pc = "number", !.fp = source.shape]
            \/ call'[t] = [call[t] EXCEPT !.pc = "number"]
        BY <1>1, <2>1, GotoFrame DEF Stamp
      <3> QED BY <1>1, <2>1, <3>1 DEF Calls, Stamp
    <2>2. CASE PickOpidx(t)
      <3>1. PICK m : \/ /\ call[t].pc = "number"
                        /\ call'[t] = [call[t] EXCEPT !.pc = "record", !.opidx = m]
                     \/ /\ call[t].pc = "markNumber"
                        /\ call'[t] = [call[t] EXCEPT !.pc = "mark", !.opidx = m]
        BY <1>1, <2>2, GotoFrame DEF PickOpidx
      <3> QED BY <1>1, <3>1 DEF Calls
    <2>3. CASE Deliver(t)
      BY <1>1, <2>3, GotoFrame DEF Deliver, Idle
    <2> QED BY <2>1, <2>2, <2>3
  <1>5. RowGone(call[t])' /\ HasTable(call[t])'
    BY <1>2, <1>3, <1>4 DEF RowGone, HasTable
  <1> QED BY <1>1, <1>2, <1>5, QuietKept

\* The entry comes after its table and before its payload.
LEMMA InsertRowKept ==
  ASSUME Inv, Kept, NEW t \in Tasks, InsertRow(t)
  PROVE  Kept'
  <1> DEFINE c == call[t]
             y == [opidx |-> c.opidx, key |-> c.key, deep |-> c.deep,
                   kind |-> c.kind, fp |-> c.fp, epoch |-> c.epoch,
                   table |-> c.table]
  <1>1. WorkFrame(t) /\ \A u \in Tasks \ {t} : call[u].pc \in {"idle", "acquire"}
    BY WorkFrameHolds, OthersOutside DEF Inv, Work, Store
  <1>2. c \in Calls /\ TypeInv /\ NamesOwn(c) /\ HasTable(c) /\ c.pc = "record"
    BY LocalNow DEF Inv, Local, InsertRow, Kept
  <1>3. call'[t] = [c EXCEPT !.pc = IF c.kind = "actual" THEN "payload" ELSE "deliver"]
    BY <1>2, GotoFrame DEF InsertRow
  <1>4. /\ call'[t].pc = IF c.kind = "actual" THEN "payload" ELSE "deliver"
        /\ call'[t].opidx = c.opidx
    BY <1>2, <1>3 DEF Calls
  <1>5. UNCHANGED <<payloads, tables>> /\ rows' = rows \union {y}
    BY DEF InsertRow
  <1>6. y.opidx = c.opidx /\ y.key = c.key /\ y.kind = c.kind /\ y.table = c.table
    OBVIOUS
  <1> HIDE DEF y
  <1>7. PayloadsStored'
    <2>1. \A r \in rows : r.kind = "actual" => \E p \in payloads : p.opidx = r.opidx
      BY <1>1, <1>2 DEF Kept, PayloadsStored
    <2> QED BY <1>4, <1>5, <1>6, <2>1 DEF PayloadsStored
  <1>8. TablesStored'
    <2>1. c.kind = "table" => \E x \in tables : /\ x.name = c.table /\ x.place = "cache"
                                                /\ x.of.key = c.key
      BY <1>2 DEF NamesOwn, HasTable, Current
    <2> QED BY <1>5, <1>6, <2>1 DEF Kept, TablesStored
  <1>9. NamesApart' /\ RowGone(call[t])' /\ HasTable(call[t])'
    BY <1>4, <1>5 DEF Kept, NamesApart, RowGone, HasTable
  <1> QED BY <1>1, <1>7, <1>8, <1>9, OthersHoldNothing DEF Kept

\* The payload's number is free: its INSERT does not fail.
LEMMA StorePayloadKept ==
  ASSUME Inv, Kept, Reliable, NEW t \in Tasks, StorePayload(t)
  PROVE  Kept'
  <1> DEFINE p == [opidx |-> call[t].opidx, of |-> call[t].of]
  <1>1. WorkFrame(t) /\ \A u \in Tasks \ {t} : call[u].pc \in {"idle", "acquire"}
    BY WorkFrameHolds, OthersOutside DEF Inv, Work, Store
  <1>2. call[t] \in Calls /\ TypeInv /\ NamesOwn(call[t])
    BY LocalNow DEF Inv, Local
  <1>3. call'[t] = [call[t] EXCEPT !.pc = "deliver"]
    BY <1>2, GotoFrame DEF StorePayload
  <1>4. call'[t].pc = "deliver"
    BY <1>2, <1>3 DEF Calls
  <1>5. payloads' = payloads \union {p} /\ UNCHANGED <<rows, tables>>
    BY <1>2 DEF StorePayload, NamesOwn, Reliable
  <1>6. p.opidx = call[t].opidx
    OBVIOUS
  <1> HIDE DEF p
  <1>7. PayloadsStored'
    BY <1>1, <1>5, <1>6 DEF Kept, PayloadsStored
  <1>8. NamesApart' /\ TablesStored' /\ RowGone(call[t])' /\ HasTable(call[t])'
    BY <1>4, <1>5 DEF Kept, NamesApart, TablesStored, RowGone, HasTable
  <1> QED BY <1>1, <1>7, <1>8, OthersHoldNothing DEF Kept

\* Issuing a call and waiting for the lock touch nothing.
LEMMA OuterKept ==
  ASSUME Inv, Kept, NEW t \in Tasks, Begin(t) \/ Acquire(t)
  PROVE  Kept'
  <1>1. call[t] \in Calls /\ TypeInv
    BY LocalNow DEF Inv
  <1>2. /\ Others(t) /\ call[t].pc \in {"idle", "acquire"}
        /\ call'[t].pc \in {"acquire", "lookup", "execute"}
    <2>1. CASE Begin(t)
      BY <1>1, <2>1, BeginMoves DEF Begin
    <2>2. CASE Acquire(t)
      <3>1. /\ Others(t)
            /\ call'[t] = [call[t] EXCEPT !.pc = IF call[t].deep THEN "lookup" ELSE "execute"]
        BY <1>1, <2>2, GotoFrame DEF Acquire
      <3> QED BY <1>1, <2>2, <3>1 DEF Calls, Acquire
    <2> QED BY <2>1, <2>2
  <1>3. UNCHANGED <<rows, payloads, tables>>
    BY DEF Begin, Acquire
  <1>4. PayloadsStored' /\ NamesApart' /\ TablesStored'
    BY <1>2, <1>3 DEF Kept, PayloadsStored, NamesApart, TablesStored, Others
  <1>5. ASSUME NEW u \in Tasks PROVE RowGone(call[u])' /\ HasTable(call[u])'
    <2>1. CASE u = t
      BY <1>2, <2>1 DEF RowGone, HasTable
    <2>2. CASE u # t
      BY <1>2, <1>3, <2>2 DEF Kept, RowGone, HasTable, Others
    <2> QED BY <2>1, <2>2
  <1> QED BY <1>4, <1>5 DEF Kept

LEMMA NextKept ==
  ASSUME Inv, Kept, Reliable, [Next]_vars
  PROVE  Kept'
  <1>1. CASE UNCHANGED vars
    BY <1>1 DEF vars, Kept, PayloadsStored, NamesApart, TablesStored, RowGone, HasTable
  <1>2. ASSUME NEW t \in Tasks, Work(t) PROVE Kept'
    <2>1. CASE Replay(t)
      BY <2>1, ReplayKept, EvictRowKept, EvictPayloadKept, EvictTableKept DEF Replay
    <2>2. CASE Execute(t)
      <3>1. ~ExecuteRaise(t)
        BY LocalNow DEF ExecuteRaise, DatasetThere
      <3> QED BY <2>2, <3>1, ExecuteKept, MarkKept, CreateTableKept DEF Execute
    <2>3. CASE Store(t)
      <3>1. ~StoreMoved(t)
        BY DEF StoreMoved, Reliable
      <3> QED
        BY <2>3, <3>1, StoreDeepKept, StoreShallowKept, StoreErrorKept, NumberKept,
           InsertRowKept, StorePayloadKept DEF Store
    <2> QED BY <1>2, <2>1, <2>2, <2>3 DEF Work
  <1>3. ASSUME NEW t \in Tasks, Begin(t) \/ Acquire(t) \/ Work(t) \/ Fail(t)
        PROVE  Kept'
    BY <1>2, <1>3, OuterKept DEF Fail, Reliable
  <1> QED BY <1>1, <1>3 DEF Next, Edit, Quiesce, Reliable

(* Under the same conditions an entry's payload and its table are there    *)
(* whenever the entry is, but for the wrapper that is storing or evicting  *)
(* them, and no table's name is ever used twice.                           *)
THEOREM KeptInvariant ==
  ASSUME Reliable
  PROVE  Spec => [](Inv /\ Kept)
  <1>1. Init => Kept
    BY DEF Init, Kept, PayloadsStored, NamesApart, TablesStored, RowGone, HasTable, Idle
  <1>2. Spec => []Inv
    BY InvAlways
  <1>3. Inv /\ Kept /\ [Next]_vars => Kept'
    BY NextKept
  <1> QED BY <1>1, <1>2, <1>3, PTL DEF Spec

(* Under the same conditions an entry whose result is said to be in the    *)
(* payload table has it there between calls: the three statements of an    *)
(* eviction and the two of a store leave nothing half done.                *)
THEOREM StoredSafety ==
  ASSUME Reliable
  PROVE  Spec => []StoredTogether
  <1>1. Kept => StoredTogether
    BY DEF Kept, PayloadsStored, StoredTogether
  <1> QED BY <1>1, KeptInvariant, PTL

(* Under the same conditions the derived tables between calls are exactly  *)
(* those the entries name, each once, in the cache schema, with what the   *)
(* entry's own call computed: no table leaks and none is shared.           *)
THEOREM TablesSafety ==
  ASSUME Reliable
  PROVE  Spec => []TablesKept
  <1>1. ASSUME Inv, Kept, \A t \in Tasks : call[t].pc = "idle"
        PROVE  /\ \A x \in tables : /\ x.place = "cache"
                                    /\ \E r \in rows : /\ r.kind = "table"
                                                       /\ r.table = x.name
                                                       /\ r.key = x.of.key
               /\ \A r \in rows : r.kind = "table" => At(r.table, "cache") # {}
               /\ \A x, y \in tables : x.name = y.name => x = y
    <2>1. TablesOwned /\ NamesApart /\ TablesStored
      BY <1>1 DEF Inv, Sound, Kept
    <2>2. ASSUME NEW x \in tables
          PROVE  x.place = "cache" /\ \E r \in rows : /\ r.kind = "table"
                                                      /\ r.table = x.name
                                                      /\ r.key = x.of.key
      <3>1. PICK r \in rows : x.place = "cache" /\ r.kind = "table" /\ r.table = x.name
        BY <1>1, <2>1 DEF TablesOwned
      <3>2. PICK y \in tables : y.name = r.table /\ y.of.key = r.key
        BY <2>1, <3>1 DEF TablesStored
      <3>3. y = x
        BY <2>1, <3>1, <3>2 DEF NamesApart
      <3> QED BY <3>1, <3>2, <3>3
    <2>3. \A r \in rows : r.kind = "table" => At(r.table, "cache") # {}
      BY <2>1 DEF TablesStored, At
    <2> QED BY <2>1, <2>2, <2>3 DEF NamesApart
  <1>2. Inv /\ Kept => TablesKept
    BY <1>1 DEF TablesKept
  <1> QED BY <1>2, KeptInvariant, PTL

=============================================================================
