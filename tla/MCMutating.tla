----------------------------- MODULE MCMutating -----------------------------
(* Small instances of Mutating for TLC.                                    *)
EXTENDS Mutating, TLC

CONSTANT c1

OneCaller  == {c1}

SetImage == Intent("set_image", "image" :> 2)
Rework   == Intent("apply", "replicas" :> 1 @@ "image" :> 2)
Cordon   == Intent("cordon", "unschedulable" :> 2)
Remove   == DeleteIntent("foreground")

NoFields     == {}
TheImage     == {"image"}
OnlyTrue     == {TRUE}
OnlyFalse    == {FALSE}
Either       == BOOLEAN

Workload     == {"Deployment"}
NodeOnly     == {"Node"}

ChangeIntents == {Rework, Remove}
CordonIntents == {Cordon}
ImageIntents  == {SetImage}
=============================================================================
