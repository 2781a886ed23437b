----------------------------- MODULE MCRequests -----------------------------
(* Instances of Requests for TLC. *)
EXTENDS Requests, TLC

CONSTANTS c1, c2

\* Two submissions that name the same external keys in opposite order, one of
\* them also under the other's key, and every other command once or twice.
Mixed ==
    { Command("create_definition", 1, 0, 0, TRUE, <<>>, "party"),
      Command("publish_version", 1, 0, 1, FALSE, <<>>, "party"),
      Command("set_active", 1, 0, 2, FALSE, <<>>, "party"),
      Command("submit", 1, 1, 0, FALSE, <<1, 2>>, "party"),
      Command("submit", 2, 1, 0, FALSE, <<2, 1>>, "operator"),
      Command("submit", 2, 2, 0, FALSE, <<>>, "nobody"),
      Command("record_result", 1, 1, 1, FALSE, <<>>, "party"),
      Command("complete", 1, 1, 0, TRUE, <<>>, "party"),
      Command("complete", 2, 1, 0, FALSE, <<>>, "party"),
      Command("cancel", 1, 1, 0, FALSE, <<>>, "party"),
      Command("fail", 1, 1, 0, FALSE, <<>>, "party") }

=============================================================================
