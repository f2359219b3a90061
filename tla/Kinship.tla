------------------------------- MODULE Kinship -------------------------------
(***************************************************************************)
(* The relationships of a cluster (Kin), asked of both of their ends: a    *)
(* question is a cluster, and whether its collections are read from an     *)
(* index or at the API server.                                             *)
(***************************************************************************)
CONSTANT Clusters   \* sets of objects that stand in one cluster

VARIABLE question

K == INSTANCE Kin

(* What relationships are asked about are clusters.                        *)
ASSUME ClustersAssumption == \A cluster \in Clusters : K!IsCluster(cluster)

Nothing == [about |-> "nothing"]

AskKin ==
  /\ question = Nothing
  /\ \E cluster \in Clusters, live \in BOOLEAN :
       question' = [about |-> "kin", cluster |-> cluster, live |-> live]

AskingKin == question = Nothing /\ [][AskKin]_question

(* §24, Appendix B (relations.rs, relationship.rs): a relationship is the  *)
(* same one asked from either of its ends, from an index or from the API   *)
(* server.                                                                 *)
EndsAgree ==
  question.about = "kin" => K!EndsAgree(question.cluster, question.live)
=============================================================================
