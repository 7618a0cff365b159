------------------------------- MODULE FlintKV -------------------------------
(***************************************************************************)
(* What a writable FlintTable promises, without blocks or cursors.         *)
(*                                                                         *)
(* The table files hold at most two committed revisions, each a map from  *)
(* keys to tags.  The writer works on a private copy of the revision it   *)
(* opened (or last committed).  Its changes are invisible until commit,   *)
(* which keeps the revision the writer started from and replaces the     *)
(* other one; any write to the file may retire that other revision early *)
(* (flint_table.cc write_block unlinks it).  A call may fail and leave    *)
(* the handle unusable, and the machine may crash, but neither changes a  *)
(* committed revision.                                                     *)
(***************************************************************************)
EXTENDS Naturals, FiniteSets

CONSTANTS Keys, Values, NoVal, Revisions, Closed

VARIABLES
    snaps,   \* the committed revisions: a set of [rev, map] records
    wmap,    \* the writer's current map, or Closed
    wbase    \* the revision the writer's transaction started from

Map == [Keys -> Values \cup {NoVal}]
EmptyMap == [k \in Keys |-> NoVal]
Revs == {s.rev : s \in snaps}
MapOf(r) == (CHOOSE s \in snaps : s.rev = r).map

TypeOK ==
    /\ snaps \subseteq [rev : Revisions, map : Map]
    /\ wmap \in Map \cup {Closed}
    /\ wbase \in Revisions

\* Only the revision the writer started from survives (the other base
\* file is unlinked before the first block is written).
Retire == {s \in snaps : s.rev = wbase}
MayRetire == snaps' \in {snaps, Retire}

Init == snaps = {} /\ wmap = Closed /\ wbase = 0

\* A new table: one empty revision r (the revision the handle holds,
\* 0 unless a commit on the closed handle set it), opened for writing;
\* add() on a handle without a table creates it and adds its key.
Create(r) ==
    /\ snaps = {}
    /\ snaps' = {[rev |-> r, map |-> EmptyMap]} /\ wbase' = r
    /\ wmap' \in {EmptyMap} \cup {[EmptyMap EXCEPT ![k] = v] : k \in Keys, v \in Values}

\* create_and_open called to replace a table: its revisions give way to
\* one empty revision r, opened for writing.  Only this call drops them.
Overwrite(r) ==
    /\ snaps' = {[rev |-> r, map |-> EmptyMap]} /\ wbase' = r /\ wmap' = EmptyMap

\* add() or del() of one key (v = NoVal), in the writer's copy only.
Write(k, v) ==
    /\ wmap # Closed
    /\ wmap' = [wmap EXCEPT ![k] = v]
    /\ MayRetire /\ UNCHANGED wbase

\* A write-back of buffered blocks (flush_db, or a cursor eviction).
Flush ==
    /\ wmap # Closed
    /\ snaps' = Retire /\ UNCHANGED <<wmap, wbase>>

Commit(r) ==
    /\ wmap # Closed
    /\ \A x \in Revs : x < r
    /\ snaps' = Retire \cup {[rev |-> r, map |-> wmap]}
    /\ wbase' = r /\ UNCHANGED wmap

\* open(r) for writing, or a cancel() rereading the writer's revision.
Open(r) ==
    /\ r \in Revs
    /\ wmap' = MapOf(r) /\ wbase' = r /\ UNCHANGED snaps

\* close(), a crash, or a call failing and leaving the handle unusable;
\* a closed handle's revision is not part of the promise.
Fail ==
    /\ wmap' = Closed
    /\ MayRetire /\ wbase' \in Revisions

\* erase(): no revision is left.
Erase ==
    /\ snaps' = {} /\ wmap' = Closed /\ wbase' \in Revisions

\* A crash part way through create_and_open or erase: some of the old
\* revisions are gone and the new empty revision r may be there, but
\* every revision left is one that was committed or that empty one.
Interrupted(r) ==
    /\ \E old \in SUBSET snaps, new \in SUBSET {[rev |-> r, map |-> EmptyMap]} :
         snaps' = old \cup new
    /\ wmap' = Closed /\ wbase' \in Revisions

Next ==
    \/ Flush \/ Fail \/ Erase
    \/ \E k \in Keys, v \in Values \cup {NoVal} : Write(k, v)
    \/ \E r \in Revisions : Create(r) \/ Overwrite(r) \/ Commit(r) \/ Open(r)
                           \/ Interrupted(r)

Spec == Init /\ [][Next]_<<snaps, wmap, wbase>>
==============================================================================
