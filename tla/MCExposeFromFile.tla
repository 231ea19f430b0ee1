-------------------------- MODULE MCExposeFromFile --------------------------
(* The factory's object methods on the objects a command decodes from a    *)
(* file, which the server has not validated: a replication controller      *)
(* may come without a pod template.                                        *)
EXTENDS ClientAccessFactory

FileObjects == ObjectsWith({"nil", "set"})

=============================================================================
