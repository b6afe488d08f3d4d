---------------------------- MODULE MCCopyStream ----------------------------
(***************************************************************************)
(* Instances of CopyStream for TLC: every tar of at most one wanted entry  *)
(* beside an ignored one, and two with two wanted entries.                 *)
(***************************************************************************)
EXTENDS CopyStream

Entry(kind, files, sound) == [kind |-> kind, files |-> files, sound |-> sound]

Other == Entry("other", 1, TRUE)

MCTars ==
  {<<>>, <<Other>>, <<Other, Entry("file", 1, TRUE)>>,
   <<Entry("tgz", 2, TRUE), Other>>, <<Entry("tgz", 2, FALSE)>>,
   <<Entry("zip", 2, TRUE), Other>>, <<Entry("zip", 2, FALSE)>>,
   <<Entry("tgz", 1, TRUE), Entry("zip", 1, TRUE)>>,
   <<Entry("file", 1, TRUE), Entry("file", 1, TRUE)>>}
=============================================================================
