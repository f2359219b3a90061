------------------------------ MODULE ApiServer -----------------------------
(***************************************************************************)
(* The Kubernetes API server as the provider sees it: one collection whose *)
(* every version is a snapshot, and a window of history it still holds.    *)
(* It is not part of the repository; it is what the provider's code relies *)
(* on when it opens a watch at a version, stages a streaming list, or      *)
(* reads `410 Gone`.                                                       *)
(*                                                                         *)
(* history[v] is the collection at resourceVersion v.  Versions are shared *)
(* with every other collection of the cluster, so a version may pass with  *)
(* no change here: that is what bookmarks report.                          *)
(***************************************************************************)
EXTENDS WatchOps

CONSTANT MaxVersion     \* bound on the number of versions of a behaviour

ASSUME MaxVersionAssumption == MaxVersion \in Nat \ {0}

VARIABLES
  history,  \* the snapshot at each version, a sequence
  oldest    \* the oldest version a watch may still open from

server == << history, oldest >>

Now == Len(history)

ServerTypeOK ==
  /\ history \in Seq(Cache)
  /\ history # << >>
  /\ oldest \in 1..Now

(* Any of the keys may exist before the provider connects.                 *)
ServerInit ==
  /\ \E existing \in SUBSET Keys :
       history = << [k \in Keys |-> IF k \in existing
                                    THEN [uid |-> 1, rv |-> 1] ELSE None] >>
  /\ oldest = 1

(* The snapshot after a write of k: a create starts a new lifetime, an     *)
(* update keeps it.                                                        *)
Put(snapshot, k, v) ==
  [snapshot EXCEPT ![k] = [uid |-> IF snapshot[k] = None THEN v ELSE snapshot[k].uid,
                           rv  |-> v]]

Write(k) ==
  /\ Now < MaxVersion
  /\ history' = Append(history, Put(history[Now], k, Now + 1))
  /\ UNCHANGED oldest

Delete(k) ==
  /\ Now < MaxVersion
  /\ history[Now][k] # None
  /\ history' = Append(history, [history[Now] EXCEPT ![k] = None])
  /\ UNCHANGED oldest

(* Another collection was written: the version moves, this one does not.   *)
WriteElsewhere ==
  /\ Now < MaxVersion
  /\ history' = Append(history, history[Now])
  /\ UNCHANGED oldest

(* The server forgets history it held.                                     *)
Compact ==
  /\ oldest < Now
  /\ oldest' = Now
  /\ UNCHANGED history

ServerNext ==
  \/ \E k \in Keys : Write(k) \/ Delete(k)
  \/ WriteElsewhere
  \/ Compact

-----------------------------------------------------------------------------
(* The event stream of the collection.                                     *)

Changed(v, k) == history[v][k] # history[v - 1][k]

(* The event of the change of k that version v is.                         *)
EventAt(v, k) ==
  IF history[v][k] = None
  THEN Change("deleted", k, [uid |-> history[v - 1][k].uid, rv |-> v])
  ELSE Change(IF history[v - 1][k] = None THEN "added" ELSE "modified",
              k, history[v][k])

(* A version is one write: at most one key changes at it, and what it      *)
(* wrote carries that version.                                             *)
OneChangePerVersion ==
  \A v \in 2..Now, k \in Keys :
    Changed(v, k) =>
      /\ \A j \in Keys \ {k} : ~ Changed(v, j)
      /\ history[v][k] # None => history[v][k].rv = v

(* Nothing of the collection changed after version `from` up to `to`.      *)
QuietBetween(from, to) == \A v \in (from + 1)..to : history[v] = history[from]

(* Version v holds the first change after `from`, and it is of k.          *)
IsNext(from, v, k) ==
  /\ v \in (from + 1)..Now
  /\ QuietBetween(from, v - 1)
  /\ Changed(v, k)
=============================================================================
