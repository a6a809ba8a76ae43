----------------------------- MODULE MCAbiCheck -----------------------------
(* AbiCheck with releases the table lists, releases it does not, and a     *)
(* development build.  v1.5.7 has as many slots as v1.5.6, in another      *)
(* order; v2.0.1 more than v2.0.0, and v9.9.9 its layout.                  *)
EXTENDS AbiCheck

CONSTANT Dev

MCReleases == { <<1, 4, 5>>, <<1, 5, 0>>, <<1, 5, 2>>, <<1, 5, 6>>, <<2, 0, 0>>,
                <<1, 5, 7>>, <<2, 0, 1>>, <<9, 9, 9>> }
MCOthers == {Dev}
MCLayouts == {"1.4", "1.5.0", "1.5.2", "2.0", "1.5.7", "2.0.1"}
MCLayoutOf ==
    [v \in MCReleases \cup MCOthers |->
        CASE v = <<1, 4, 5>> -> "1.4"
          [] v = <<1, 5, 0>> -> "1.5.0"
          [] v \in {<<1, 5, 2>>, <<1, 5, 6>>} -> "1.5.2"
          [] v = <<2, 0, 0>> -> "2.0"
          [] v = <<1, 5, 7>> -> "1.5.7"
          [] v \in {<<2, 0, 1>>, <<9, 9, 9>>, Dev} -> "2.0.1"]
MCSlots == [l \in MCLayouts |->
    CASE l = "1.4" -> 459 [] l = "1.5.0" -> 545
      [] l \in {"1.5.2", "1.5.7"} -> 546 [] l = "2.0" -> 548
      [] l = "2.0.1" -> 549]
MCRunsOn == { <<l, l>> : l \in MCLayouts }
              \cup { <<"1.5.2", "2.0">>, <<"1.5.2", "2.0.1">>, <<"2.0", "2.0.1">> }
=============================================================================
