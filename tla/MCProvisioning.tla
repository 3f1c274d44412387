--------------------------- MODULE MCProvisioning ---------------------------
(***************************************************************************)
(* Instances of Provisioning.                                              *)
(***************************************************************************)
EXTENDS Provisioning, TLC

\* Which process runs which create makes no difference.
MCSymmetry == Permutations(Creators)

\* Two names continue the first, one of them after a hyphen.
MCUsers == {<<"a">>, <<"a", "b">>, <<"a", "-", "b">>}
MCHyphenUsers == {<<"a">>, <<"a", "-", "b">>}

MCBody(name, driver, configFrom, subnet) ==
  [form |-> "json", name |-> name, driver |-> driver, configFrom |-> configFrom,
   subnet |-> subnet]

\* The names iso uses, with subnets it has other plans for; the rest is refused.
MCBodies ==
  {MCBody(NetName(<<"a">>), "bridge", Absent, 1),
   MCBody(NetName(<<"a", "b">>), Absent, "empty", 0),
   MCBody(NetName(<<"a", "-", "b">>), "bridge", "empty", 7),
   MCBody(<<>>, "", Absent, 7),
   MCBody(<<"x">>, "other", Absent, 7),
   MCBody(<<"x">>, "bridge", "nonEmpty", 7)}

MCHyphenBodies == {MCBody(NetName(<<"a", "-", "b">>), "bridge", Absent, 7)}
=============================================================================
