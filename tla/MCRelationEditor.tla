-------------------------- MODULE MCRelationEditor --------------------------
(* RelationEditor with up to two relations of different titles and offsets. *)
EXTENDS RelationEditor

CONSTANTS a, b, t, u

MCOldRelations ==
    {<<>>, <<<<a, t, t, 0>>, <<b, u, u, 1>>>>, <<<<a, u, u, 0>>, <<b, u, u, 0>>>>}

=============================================================================
