-------------------------------- MODULE TxPool --------------------------------
(***************************************************************************)
(* The transaction pool facade (transaction-pool/graph/src/pool.rs, Pool) *)
(* driven by submitter threads (submit_one / submit_and_watch) and one    *)
(* block-import thread (prune, prune_tags, clear_stale, remove_invalid),  *)
(* against the ChainApi of the module's tests (TestApi).                  *)
(*                                                                         *)
(* One sender: an extrinsic is its nonce and its hash is the nonce        *)
(* (hash_and_length is (from << 5) + nonce, injective for one sender).    *)
(* TestApi gives every transaction priority 4, requires [nonce - 1] when  *)
(* nonce exceeds the block number, provides [nonce] (nothing for          *)
(* INVALID_NONCE) and is Invalid below the block number: the tag of a     *)
(* transaction is its nonce.  Block head+1 includes the extrinsic with    *)
(* nonce head.                                                            *)
(*                                                                         *)
(* Every critical section of the code (one lock held) is one step; the    *)
(* locks are released between import, listener notification and limit    *)
(* enforcement, so other threads' steps interleave there.  BasePool,      *)
(* PoolRotator and Listener live outside this repository's sources and   *)
(* are modelled from the specification (4.2, 4.3).                        *)
(***************************************************************************)
EXTENDS Naturals, Sequences, SequencesExt, FiniteSets

CONSTANTS
  Submitters,    \* RPC threads calling submit_one / submit_and_watch
  Importer,      \* the block-import thread
  Nonces,        \* nonces of the sender's transfers that may be submitted
  InvalidNonce,  \* INVALID_NONCE: valid but provides no tag
  InPool2,       \* extrinsics whose is_even() is Some(true): routed to pool2
  Longevity,     \* ValidTransaction.longevity returned by the runtime
  ReadyLimit,    \* Options.ready.count
  FutureLimit,   \* Options.future.count
  MaxHead,       \* bound: last block number imported
  Serial         \* TRUE: an operation starts only when no other is under way

Threads == Submitters \cup {Importer}
Xts == Nonces \cup {InvalidNonce}
Pools == {1, 2}

ASSUME /\ Nonces \subseteq Nat /\ InvalidNonce \in Nat \ Nonces
       /\ InPool2 \subseteq Xts /\ Importer \notin Submitters
       /\ {Longevity, ReadyLimit, FutureLimit, MaxHead} \subseteq Nat

VARIABLES
  head,       \* number of the best imported block
  ready,      \* ready[p]: ready queue of pool p, in insertion order
  future,     \* future[p]: future queue of pool p, in insertion order
  recent,     \* recent[p]: tags of the last two prune_tags calls of pool p
  banned,     \* PoolRotator: temporarily banned hashes
  watched,    \* Listener: hashes with a registered watcher sender
  watchLog,   \* statuses received by the current sender of each hash
  pc,         \* control point of each thread
  sq,         \* submit_at: extrinsics of the batch still to process
  sat,        \* submit_at: number of the block `at`
  cur,        \* submit_at: the transaction being imported / its Imported outcome
  res,        \* submit_at: <<hash, result>> of each processed extrinsic
  srem,       \* submit_at: hashes removed by enforce_limits
  itags,      \* prune: tags provided by the imported block
  iknown,     \* prune: known_imported_hashes
  ipruned,    \* prune_tags: PruneStatus.pruned of both pools
  ipromoted   \* prune_tags: hashes promoted to ready by the prune

poolVars == <<ready, future, recent>>
submitVars == <<sq, sat, cur, res, srem>>
importVars == <<itags, iknown, ipruned, ipromoted>>
vars == <<head, poolVars, banned, watched, watchLog, pc, submitVars, importVars>>

Tx == [h : Xts, req : SUBSET Nat, missing : SUBSET Nat, till : Nat]
Status == {"Future", "Ready", "Dropped", "Invalid", "Finalized"}
Terminal == {"Dropped", "Invalid", "Finalized"}
Results == {"Ok", "TemporarilyBanned", "NoTagsProvided", "InvalidTransaction",
            "AlreadyImported", "ImmediatelyDropped"}

Hashes(s) == {t.h : t \in ToSet(s)}
InPool(p) == Hashes(ready[p]) \cup Hashes(future[p])
Pooled == InPool(1) \cup InPool(2)

-----------------------------------------------------------------------------
(* TestApi::validate_transaction at block n.                              *)
Validate(x, n) ==
  IF x < n THEN [kind |-> "Invalid"]
  ELSE [kind |-> "Valid",
        requires |-> IF x > n THEN {x - 1} ELSE {},
        provides |-> IF x = InvalidNonce THEN {} ELSE {x},
        till |-> n + Longevity]

(* Pool::submit_at routing: tx.data.is_even(). *)
PoolOf(x) == IF x \in InPool2 THEN 2 ELSE 1

-----------------------------------------------------------------------------
(* BasePool (spec-modelled).  A ready transaction's tags are its hash.    *)

(* Mutant: import_to_ready that does not satisfy the future queue.      *)
ImportToReadyNoPromote(rdy, fut, queue, promoted) ==
  [ready |-> rdy \o queue, future |-> fut, promoted |-> promoted]

(* import_to_ready: import queue's head into ready, satisfy its tag in   *)
(* the future queue and queue the futures left with nothing missing.     *)
RECURSIVE ImportToReady(_, _, _, _)
ImportToReady(rdy, fut, queue, promoted) ==
  IF queue = <<>> THEN [ready |-> rdy, future |-> fut, promoted |-> promoted]
  ELSE LET t    == Head(queue)
           fut1 == [i \in 1..Len(fut) |-> [fut[i] EXCEPT !.missing = @ \ {t.h}]]
           sat1 == SelectSeq(fut1, LAMBDA f : f.missing = {})
       IN ImportToReady(Append(rdy, t), SelectSeq(fut1, LAMBDA f : f.missing # {}),
                        Tail(queue) \o sat1,
                        promoted \o [i \in 1..Len(sat1) |-> sat1[i].h])

(* BasePool::import: AlreadyImported, Future (a required tag is neither   *)
(* provided by a ready transaction nor recently pruned) or Ready.         *)
BaseImport(p, t) ==
  LET missing == t.req \ (Hashes(ready[p]) \cup recent[p][1] \cup recent[p][2])
  IN CASE t.h \in InPool(p) -> [kind |-> "AlreadyImported"]
       [] missing # {}      -> [kind |-> "Future", ready |-> ready[p],
                                future |-> Append(future[p], [t EXCEPT !.missing = missing]),
                                promoted |-> <<>>]
       [] OTHER             -> LET r == ImportToReady(ready[p], future[p], <<t>>, <<>>)
                               IN [kind |-> "Ready", ready |-> r.ready,
                                   future |-> r.future, promoted |-> r.promoted]

(* Ready::remove_invalid: the hashes and every ready transaction that     *)
(* depends on a removed one.                                              *)
RECURSIVE RemoveClosure(_, _)
RemoveClosure(rdy, S) ==
  LET S2 == S \cup {t.h : t \in {u \in ToSet(rdy) : u.req \cap S # {}}}
  IN IF S2 = S THEN S ELSE RemoveClosure(rdy, S2)

(* BasePool::remove_invalid on one pool's queues: the removed hashes     *)
(* (ready cascade, futures removed as listed) and what is left.           *)
RemoveInvalidQ(rdy, fut, hs) ==
  LET gone == RemoveClosure(rdy, hs) \cap Hashes(rdy)
      futs == hs \cap Hashes(fut)
  IN [ready   |-> SelectSeq(rdy, LAMBDA t : t.h \notin gone),
      future  |-> SelectSeq(fut, LAMBDA t : t.h \notin futs),
      removed |-> gone \cup futs]

(* self.pool.write().remove_invalid(hashes), then the same on pool2.      *)
RemoveInvalidPools(rdyF, futF, hs) ==
  LET a == RemoveInvalidQ(rdyF[1], futF[1], hs)
      b == RemoveInvalidQ(rdyF[2], futF[2], hs)
  IN [ready |-> <<a.ready, b.ready>>, future |-> <<a.future, b.future>>,
      removed |-> a.removed \cup b.removed]

(* Ready::prune_tags: the provider of the tag and, transitively, the      *)
(* ready transactions it requires.                                        *)
RECURSIVE Ancestors(_, _)
Ancestors(rdy, S) ==
  LET S2 == S \cup UNION {t.req \cap Hashes(rdy) : t \in {u \in ToSet(rdy) : u.h \in S}}
  IN IF S2 = S THEN S ELSE Ancestors(rdy, S2)

(* BasePool::prune_tags: remember the tags, satisfy them in the future    *)
(* queue, prune their providers with their ancestors from ready, then    *)
(* import the satisfied futures to ready (with what they promote).        *)
BasePruneTags(p, tags) ==
  LET gone == Ancestors(ready[p], tags \cap Hashes(ready[p]))
      fut1 == [i \in 1..Len(future[p]) |-> [future[p][i] EXCEPT !.missing = @ \ tags]]
      sat1 == SelectSeq(fut1, LAMBDA f : f.missing = {})
      r    == ImportToReady(SelectSeq(ready[p], LAMBDA t : t.h \notin gone),
                            SelectSeq(fut1, LAMBDA f : f.missing # {}), sat1, <<>>)
  IN [ready    |-> r.ready,
      future   |-> r.future,
      recent   |-> <<recent[p][2], tags>>,
      pruned   |-> SelectSeq(ready[p], LAMBDA t : t.h \in gone),
      promoted |-> [i \in 1..Len(sat1) |-> sat1[i].h] \o r.promoted]

(* BasePool::enforce_limits: while a count limit is exceeded, remove the  *)
(* oldest ready transaction (with its dependents), then the oldest future *)
(* one (all priorities are equal).                                        *)
RECURSIVE EnforceReady(_, _)
EnforceReady(rdy, removed) ==
  IF Len(rdy) <= ReadyLimit THEN [ready |-> rdy, removed |-> removed]
  ELSE LET gone == RemoveClosure(rdy, {Head(rdy).h})
       IN EnforceReady(SelectSeq(rdy, LAMBDA t : t.h \notin gone), removed \cup gone)

BaseEnforceLimits(p) ==
  LET r    == EnforceReady(ready[p], {})
      keep == Len(future[p]) - FutureLimit
      fut  == IF keep > 0 THEN SubSeq(future[p], keep + 1, Len(future[p])) ELSE future[p]
  IN [ready   |-> r.ready,
      future  |-> fut,
      removed |-> r.removed \cup (Hashes(future[p]) \ Hashes(fut))]

-----------------------------------------------------------------------------
(* Listener (spec-modelled): an event reaches the sender registered for   *)
(* the hash; a terminal status ends the sender and unregisters it.        *)
(* Mutant: a terminal status does not unregister the sender. *)
NotifyKeepsSender(w, log, events) ==
  LET step(acc, e) ==
        IF e[1] \notin acc.w THEN acc
        ELSE [w |-> acc.w, log |-> [acc.log EXCEPT ![e[1]] = Append(@, e[2])]]
  IN FoldLeft(step, [w |-> w, log |-> log], events)

Notify(w, log, events) ==
  LET step(acc, e) ==
        IF e[1] \notin acc.w THEN acc
        ELSE [w   |-> IF e[2] \in Terminal THEN acc.w \ {e[1]} ELSE acc.w,
              log |-> [acc.log EXCEPT ![e[1]] = Append(@, e[2])]]
  IN FoldLeft(step, [w |-> w, log |-> log], events)

NotifyAll(events) ==
  LET n == Notify(watched, watchLog, events)
  IN watched' = n.w /\ watchLog' = n.log

EventsOf(status, hs) == [i \in 1..Len(hs) |-> <<hs[i], status>>]

(* fire_events for an Imported outcome. *)
FireEvents(imp) ==
  IF imp.kind = "Ready"
  THEN EventsOf("Ready", <<imp.h>> \o imp.promoted)
  ELSE EventsOf("Future", <<imp.h>>)

-----------------------------------------------------------------------------
Init ==
  /\ head = 0
  /\ ready = [p \in Pools |-> <<>>]
  /\ future = [p \in Pools |-> <<>>]
  /\ recent = [p \in Pools |-> <<{}, {}>>]
  /\ banned = {}
  /\ watched = {}
  /\ watchLog = [x \in Xts |-> <<>>]
  /\ pc = [t \in Threads |-> "idle"]
  /\ sq = [t \in Threads |-> <<>>]
  /\ sat = [t \in Threads |-> 0]
  /\ cur = [t \in Threads |-> [kind |-> "None"]]
  /\ res = [t \in Threads |-> <<>>]
  /\ srem = [t \in Threads |-> {}]
  /\ itags = {} /\ iknown = {} /\ ipruned = <<>> /\ ipromoted = <<>>

AllIdle == \A t \in Threads : pc[t] = "idle"
MayStart == Serial => AllIdle

Goto(t, l) == pc' = [pc EXCEPT ![t] = l]
AddResult(t, x, r) == res' = [res EXCEPT ![t] = Append(@, <<x, r>>)]

(* submit_one(at = best block, xt) or submit_and_watch, which registers   *)
(* the watcher with the listener before submitting.                       *)
SubmitStart(s, x, watch) ==
  /\ pc[s] = "idle"
  /\ MayStart
  /\ IF watch
     THEN /\ watched' = watched \cup {x}
          /\ watchLog' = IF x \in watched THEN watchLog ELSE [watchLog EXCEPT ![x] = <<>>]
     ELSE UNCHANGED <<watched, watchLog>>
  /\ sq' = [sq EXCEPT ![s] = <<x>>]
  /\ sat' = [sat EXCEPT ![s] = head]
  /\ res' = [res EXCEPT ![s] = <<>>]
  /\ srem' = [srem EXCEPT ![s] = {}]
  /\ Goto(s, "validate")
  /\ UNCHANGED <<head, poolVars, banned, cur, importVars>>

(* submit_at, first closure: the ban check, then validate_transaction at  *)
(* `at` (no pool lock held).                                              *)
SubmitValidate(t) ==
  LET x == Head(sq[t])
      v == Validate(x, sat[t])
  IN /\ pc[t] = "validate"
     /\ sq[t] # <<>>
     /\ sq' = [sq EXCEPT ![t] = Tail(@)]
     /\ CASE x \in banned       -> AddResult(t, x, "TemporarilyBanned") /\ UNCHANGED cur
          [] v.kind = "Invalid" -> AddResult(t, x, "InvalidTransaction") /\ UNCHANGED cur
          [] v.provides = {}    -> AddResult(t, x, "NoTagsProvided") /\ UNCHANGED cur
          [] OTHER ->
               /\ cur' = [cur EXCEPT ![t] = [h |-> x, req |-> v.requires,
                                              missing |-> {}, till |-> v.till]]
               /\ UNCHANGED res
     /\ Goto(t, IF x \notin banned /\ v.kind = "Valid" /\ v.provides # {}
                THEN "import" ELSE "validate")
     /\ UNCHANGED <<head, poolVars, banned, watched, watchLog, sat, srem, importVars>>

(* submit_at, second closure: import under the write lock of the pool the *)
(* extrinsic is routed to.                                                *)
SubmitImport(t) ==
  LET p == PoolOf(cur[t].h)
      b == BaseImport(p, cur[t])
  IN /\ pc[t] = "import"
     /\ IF b.kind = "AlreadyImported"
        THEN /\ AddResult(t, cur[t].h, "AlreadyImported")
             /\ Goto(t, "validate")
             /\ UNCHANGED <<ready, future, cur>>
        ELSE /\ ready' = [ready EXCEPT ![p] = b.ready]
             /\ future' = [future EXCEPT ![p] = b.future]
             /\ cur' = [cur EXCEPT ![t] = [kind |-> b.kind, h |-> cur[t].h,
                                            promoted |-> b.promoted]]
             /\ Goto(t, "events")
             /\ UNCHANGED res
     /\ UNCHANGED <<head, recent, banned, watched, watchLog, sq, sat, srem, importVars>>

(* submit_at: fire_events under the listener lock; the result is Ok.     *)
SubmitEvents(t) ==
  /\ pc[t] = "events"
  /\ NotifyAll(FireEvents(cur[t]))
  /\ AddResult(t, cur[t].h, "Ok")
  /\ Goto(t, "validate")
  /\ UNCHANGED <<head, poolVars, banned, sq, sat, cur, srem, importVars>>

(* Where submit_at returns to: the caller, or prune_tags.                 *)
AfterSubmit(t) == IF t = Importer THEN "prunedEvents" ELSE "idle"

(* Mutant: results are returned as they are. *)
RewriteNone(rs, removed) == rs

(* ImmediatelyDropped rewrite of the results once limits are enforced.    *)
Rewrite(rs, removed) ==
  [i \in 1..Len(rs) |-> IF rs[i][2] = "Ok" /\ rs[i][1] \in removed
                        THEN <<rs[i][1], "ImmediatelyDropped">> ELSE rs[i]]

(* enforce_limits_by_pool(p): enforce under the write lock, ban what was  *)
(* removed, then notify dropped under the listener lock.  After pool2    *)
(* submit_at rewrites its results and returns.                            *)
EnforceLimitsByPool(t, p) ==
  LET b       == BaseEnforceLimits(p)
      removed == srem[t] \cup b.removed
  IN /\ IF p = 1 THEN pc[t] = "validate" /\ sq[t] = <<>> ELSE pc[t] = "limits2"
     /\ ready' = [ready EXCEPT ![p] = b.ready]
     /\ future' = [future EXCEPT ![p] = b.future]
     /\ banned' = banned \cup b.removed
     /\ NotifyAll(EventsOf("Dropped", SetToSeq(b.removed)))
     /\ IF p = 1
        THEN /\ srem' = [srem EXCEPT ![t] = removed]
             /\ Goto(t, "limits2")
             /\ UNCHANGED <<res, sat, cur>>
        ELSE /\ res' = [res EXCEPT ![t] = Rewrite(@, removed)]
             /\ Goto(t, AfterSubmit(t))
             /\ srem' = [srem EXCEPT ![t] = {}]
             /\ cur' = [cur EXCEPT ![t] = [kind |-> "None"]]
             /\ sat' = IF t = Importer THEN sat ELSE [sat EXCEPT ![t] = 0]
     /\ UNCHANGED <<head, recent, sq, importVars>>

(* Block head+1, holding the extrinsic with nonce head, is imported and   *)
(* Pool::prune(at, parent) starts: the tags of an extrinsic found in pool *)
(* (the zip of the block's extrinsics with the lookups keeps pool's only) *)
(* or else validated at the parent, and the known hashes found in either. *)
ImportBlock ==
  LET x    == head
      v    == Validate(x, head)
      tags == IF x \in InPool(1) THEN {x}
              ELSE IF v.kind = "Valid" THEN v.provides ELSE {}
  IN /\ pc[Importer] = "idle"
     /\ MayStart
     /\ head < MaxHead
     /\ head' = head + 1
     /\ sat' = [sat EXCEPT ![Importer] = head + 1]
     /\ itags' = tags
     /\ iknown' = {x} \cap Pooled
     /\ ipruned' = <<>>
     /\ ipromoted' = <<>>
     /\ Goto(Importer, "prune1")
     /\ UNCHANGED <<poolVars, banned, watched, watchLog, sq, cur, res, srem>>

(* prune_tags: pool.write().prune_tags(tags), then pool2's.               *)
PruneTagsPool(p) ==
  LET b == BasePruneTags(p, itags)
  IN /\ pc[Importer] = IF p = 1 THEN "prune1" ELSE "prune2"
     /\ ready' = [ready EXCEPT ![p] = b.ready]
     /\ future' = [future EXCEPT ![p] = b.future]
     /\ recent' = [recent EXCEPT ![p] = b.recent]
     /\ ipruned' = ipruned \o b.pruned
     /\ ipromoted' = ipromoted \o b.promoted
     /\ Goto(Importer, IF p = 1 THEN "prune2" ELSE "notify")
     /\ UNCHANGED <<head, banned, watched, watchLog, submitVars, itags, iknown>>

(* prune_tags: Ready events for the promoted, ban the known hashes, and   *)
(* re-submit the pruned transactions through submit_at(at).              *)
PruneNotify ==
  /\ pc[Importer] = "notify"
  /\ NotifyAll(EventsOf("Ready", ipromoted))
  /\ banned' = banned \cup iknown
  /\ sq' = [sq EXCEPT ![Importer] = [i \in 1..Len(ipruned) |-> ipruned[i].h]]
  /\ res' = [res EXCEPT ![Importer] = <<>>]
  /\ srem' = [srem EXCEPT ![Importer] = {}]
  /\ Goto(Importer, "validate")
  /\ itags' = {} /\ ipruned' = <<>> /\ ipromoted' = <<>>
  /\ UNCHANGED <<head, poolVars, sat, cur, iknown>>

(* prune_tags: Finalized (listener.pruned) for the re-submissions that    *)
(* came back InvalidTransaction and for the known hashes.                 *)
PrunedEvents ==
  LET invalid == {r[1] : r \in {r2 \in ToSet(res[Importer]) : r2[2] = "InvalidTransaction"}}
  IN /\ pc[Importer] = "prunedEvents"
     /\ NotifyAll(EventsOf("Finalized", SetToSeq(invalid \cup iknown)))
     /\ Goto(Importer, "clearStale")
     /\ res' = [res EXCEPT ![Importer] = <<>>]
     /\ iknown' = {}
     /\ UNCHANGED <<head, poolVars, banned, sq, sat, cur, srem, itags, ipruned, ipromoted>>

(* clear_stale(at): stale ready transactions of pool (self.ready()) and  *)
(* stale futures of both pools are banned by ban_if_stale, removed by two *)
(* remove_invalid calls with Invalid events, then clear_timeouts drops    *)
(* any ban older than this call whose time has run out.                   *)
ClearStale ==
  LET n          == sat[Importer]
      staleReady == {t.h : t \in {u \in ToSet(ready[1]) : u.till < n}}
      staleFut   == {t.h : t \in {u \in ToSet(future[1]) \cup ToSet(future[2]) : u.till < n}}
      r1         == RemoveInvalidPools(ready, future, staleReady)
      r2         == RemoveInvalidPools(r1.ready, r1.future, staleFut)
  IN /\ pc[Importer] = "clearStale"
     /\ ready' = r2.ready
     /\ future' = r2.future
     /\ NotifyAll(EventsOf("Invalid", SetToSeq(r1.removed) \o SetToSeq(r2.removed)))
     /\ \E expired \in SUBSET (banned \ (staleReady \cup staleFut)) :
          banned' = (banned \cup staleReady \cup staleFut) \ expired
     /\ Goto(Importer, "idle")
     /\ sat' = [sat EXCEPT ![Importer] = 0]
     /\ UNCHANGED <<head, recent, sq, cur, res, srem, importVars>>

(* remove_invalid(&[h]) called on its own: ban, remove from both pools,  *)
(* Invalid events for what was removed.                                   *)
RemoveInvalid(h) ==
  LET r == RemoveInvalidPools(ready, future, {h})
  IN /\ pc[Importer] = "idle"
     /\ MayStart
     /\ banned' = banned \cup {h}
     /\ ready' = r.ready
     /\ future' = r.future
     /\ NotifyAll(EventsOf("Invalid", SetToSeq(r.removed)))
     /\ UNCHANGED <<head, recent, pc, submitVars, importVars>>

Next ==
  \/ \E s \in Submitters, x \in Xts, w \in BOOLEAN :
        \* no status is ever sent for INVALID_NONCE: its watcher is not tracked
        /\ w => x \in Nonces
        /\ SubmitStart(s, x, w)
  \/ \E t \in Threads : \/ SubmitValidate(t)
                        \/ SubmitImport(t)
                        \/ SubmitEvents(t)
                        \/ \E p \in Pools : EnforceLimitsByPool(t, p)
  \/ ImportBlock
  \/ \E p \in Pools : PruneTagsPool(p)
  \/ PruneNotify
  \/ PrunedEvents
  \/ ClearStale
  \/ \E h \in Pooled : RemoveInvalid(h)

Spec == Init /\ [][Next]_vars

-----------------------------------------------------------------------------
Quiescent == AllIdle

(* Tags already provided by the chain: the block after nonce n includes it. *)
OnChain == 0..(head - 1)

(* Between operations the ready/future split of both pools is exact: each *)
(* ready transaction's requirements are on chain or provided by a ready   *)
(* transaction of its pool, and each future transaction still waits for a *)
(* tag that neither the chain nor any ready transaction provides (import, *)
(* promotion by import_to_ready and by prune_tags, eviction and removal   *)
(* cascades all have to agree for this to hold).                          *)
PoolPartitionExact ==
  Quiescent =>
    \A p \in Pools :
      /\ \A t \in ToSet(ready[p]) : t.req \subseteq OnChain \cup Hashes(ready[p])
      /\ \A f \in ToSet(future[p]) :
           ~(f.req \subseteq OnChain \cup Hashes(ready[1]) \cup Hashes(ready[2]))

(* author_submitExtrinsic's answer to submit_one: the hash on Ok,         *)
(* otherwise Error::Pool of the pool error, converted to its JSON-RPC     *)
(* error code (rpc/api/src/author/error.rs).                              *)
AE == INSTANCE AuthorError

Response(r) ==
  IF r = "Ok" THEN [ok |-> TRUE]
  ELSE [ok |-> FALSE, code |-> AE!ToRpcCode([kind |-> "Pool", pool |-> r])]

(* What an author_submitExtrinsic client is told when submit_one returns  *)
(* is true of the pool at that moment: a hash means the transaction is    *)
(* pooled (one evicted by enforce_limits at the end of the same call must *)
(* be rewritten ImmediatelyDropped), ImmediatelyDropped and Invalid mean  *)
(* it is not, and it is banned after ImmediatelyDropped, AlreadyImported  *)
(* means it is pooled and TemporarilyBanned that it is banned.           *)
SubmitResponseTruthful ==
  [][\A s \in Submitters :
       (pc[s] = "limits2" /\ pc'[s] = "idle") =>
         LET x == res'[s][1][1]
             c == Response(res'[s][1][2])
         IN IF c.ok THEN x \in Pooled'
            ELSE /\ c.code = AE!POOL_ALREADY_IMPORTED => x \in Pooled'
                 /\ c.code \in {AE!POOL_IMMEDIATELY_DROPPED, AE!POOL_INVALID_TX} => x \notin Pooled'
                 /\ c.code \in {AE!POOL_IMMEDIATELY_DROPPED, AE!POOL_TEMPORARILY_BANNED} => x \in banned']_vars

(* Between operations no transaction in either pool is stale at the best  *)
(* block: clear_stale, run by every prune, removed whatever outlived its *)
(* longevity.                                                             *)
StaleCleared ==
  Quiescent => \A p \in Pools : \A t \in ToSet(ready[p]) \cup ToSet(future[p]) :
                 t.till >= head

(* Between operations no ready transaction provides a tag the chain       *)
(* already provides (spec 8.3: after prune_tags(tags), ready() holds no   *)
(* transaction providing one of the tags).                                *)
PrunedTagNotReady ==
  Quiescent => \A p \in Pools : \A t \in ToSet(ready[p]) : t.h \notin OnChain

(* The statuses a watcher receives follow the transaction's lifecycle,   *)
(* Future, then Ready, then one terminal status (spec 5, per-hash         *)
(* ordering): events fired by different threads after they release the   *)
(* pool lock must not reach the watcher out of order.                     *)
StatusRank(st) == CASE st = "Future" -> 1 [] st = "Ready" -> 2 [] OTHER -> 3

WatcherStatusOrder ==
  \A x \in Xts :
    IsSorted([i \in 1..Len(watchLog[x]) |-> StatusRank(watchLog[x][i])], <)

(* A hash is never imported into a pool while it is temporarily banned    *)
(* (spec 8.2: submit_at yields TemporarilyBanned for a banned hash).      *)
BannedNeverImported ==
  [][\A t \in Threads :
       (pc[t] = "import" /\ pc'[t] = "events") => cur[t].h \notin banned]_vars
=============================================================================
