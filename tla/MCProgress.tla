----------------------------- MODULE MCProgress -----------------------------
(* Instances of Progress for TLC.                                           *)
EXTENDS Progress, TLC

Interchangeable == Permutations(Evaluators)

Campaign(rule, phrases, ch, drafted, edit, at, n, fail) ==
  [rule |-> rule, phrases |-> phrases, channel |-> ch, drafts |-> drafted, edits |-> edit,
   atOnce |-> at, runs |-> n, failures |-> fail]

\* Any one step may be a draft, or be edited.
ByEmail(rule, n) == Campaign(rule, FALSE, "email", {d \in SUBSET Steps : Cardinality(d) <= 1}, 1, 2, n, 0)

\* The first two steps are published, and nothing is edited.
OfTwoSteps(rule, phrases, ch, at, fail) == Campaign(rule, phrases, ch, {3..N}, 0, at, 1, fail)

WithoutReplies == {ByEmail("time_based", 1), ByEmail("link_click_required", 1)}
OneOfEach == {ByEmail("time_based", 2),
              OfTwoSteps("time_based", FALSE, "email", 2, 1),
              OfTwoSteps("link_click_required", FALSE, "email", 2, 1),
              OfTwoSteps("reply_required", TRUE, "sms", 2, 1),
              OfTwoSteps("reply_required", FALSE, "telegram", 3, 0)}

=============================================================================
