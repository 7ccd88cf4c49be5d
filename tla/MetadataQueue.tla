---------------------------- MODULE MetadataQueue ----------------------------
(***************************************************************************)
(* One MetadataQueue<K> of src/src/metadata_queue.h: a binary heap of      *)
(* Metadata<K> records guarded by one mutex.  Every public operation takes *)
(* the mutex for its whole body, so each is one atomic step here.          *)
(*                                                                         *)
(* A record is anything with the fields input_id, pts and order; the       *)
(* modules that instantiate this one add ghost fields (payload identity,   *)
(* extractor run) that the queue never looks at.  The heap is abstracted   *)
(* to the set of its elements: std::pop_heap always yields an element that *)
(* no other element precedes under `comparator`; when several records have *)
(* the same (pts, input_id, order) key the heap yields one of them and the *)
(* model picks one with CHOOSE.                                            *)
(***************************************************************************)
EXTENDS Integers, FiniteSets, SequencesExt

VARIABLE q

(* Mutant: the comparator's pts test reversed, so the heap top is the    *)
(* latest record.                                                          *)
PrecedesLatestFirst(a, b) ==
  \/ a.pts > b.pts
  \/ a.pts = b.pts /\ a.input_id < b.input_id
  \/ a.pts = b.pts /\ a.input_id = b.input_id /\ a.order < b.order

(* comparator(lhs, rhs) returns lhs > rhs on (pts, input_id, order), so   *)
(* the heap top is the smallest key: earliest pts, then smallest input id, *)
(* then smallest order.  Precedes(a, b) means a leaves the heap before b. *)
Precedes(a, b) ==
  \/ a.pts < b.pts
  \/ a.pts = b.pts /\ a.input_id < b.input_id
  \/ a.pts = b.pts /\ a.input_id = b.input_id /\ a.order < b.order

(* q.front() / pop_any_impl(): the record at the top of the heap.          *)
Top(Q) == CHOOSE r \in Q : \A s \in Q : ~Precedes(s, r)

(* Mutant of pop_impl: the collision loop left out.                      *)
RECURSIVE PopImplNoCollisionDrop(_, _, _, _)
PopImplNoCollisionDrop(Q, id, since, until) ==
  IF Q = {} \/ Top(Q).pts >= until
  THEN [rest |-> Q, val |-> {}, collided |-> {}]
  ELSE LET value == Top(Q)
           others == Q \ {value}
       IN  IF value.pts >= since /\ value.input_id = id
           THEN [rest |-> others, val |-> {value}, collided |-> {}]
           ELSE PopImplNoCollisionDrop(others, id, since, until)

(***************************************************************************)
(* pop_impl(id, since, until), the loop of metadata_queue.h:137-171.       *)
(* Result: rest = the queue afterwards, val = {} (nullopt) or {popped},    *)
(* collided = the records the collision loop (lines 156-159) discarded     *)
(* together with the popped one.                                           *)
(***************************************************************************)
RECURSIVE PopImpl(_, _, _, _)
PopImpl(Q, id, since, until) ==
  IF Q = {} \/ Top(Q).pts >= until
  THEN [rest |-> Q, val |-> {}, collided |-> {}]
  ELSE LET value == Top(Q)
           others == Q \ {value}
       IN  IF value.pts >= since /\ value.input_id = id
           THEN [rest     |-> {r \in others : r.pts # value.pts},
                 val      |-> {value},
                 collided |-> {r \in others : r.pts = value.pts}]
           ELSE PopImpl(others, id, since, until)

(* pop_all(id, since, until, out): pop_impl until it yields nullopt; vals *)
(* is the sequence written to `out`, in the order it was written.         *)
RECURSIVE PopAllImpl(_, _, _, _)
PopAllImpl(Q, id, since, until) ==
  LET p == PopImpl(Q, id, since, until)
  IN  IF p.val = {}
      THEN [rest |-> p.rest, vals |-> <<>>, collided |-> {}]
      ELSE LET more == PopAllImpl(p.rest, id, since, until)
           IN  [rest     |-> more.rest,
                vals     |-> <<CHOOSE v \in p.val : TRUE>> \o more.vals,
                collided |-> p.collided \cup more.collided]

(* drop_id(id): std::remove_if on input_id, then erase.                    *)
WithoutId(Q, id) == {r \in Q : r.input_id # id}

-----------------------------------------------------------------------------
(* The operations as steps of a queue held in the variable q.             *)

Push(m) == q' = q \cup {m}

Pop(id, since, until) == q' = PopImpl(q, id, since, until).rest

PopAll(id, since, until) == q' = PopAllImpl(q, id, since, until).rest

DropId(id) == q' = WithoutId(q, id)

=============================================================================
