----------------------------- MODULE MCExecutor -----------------------------
(***************************************************************************)
(* Executor for TLC: short texts over the runes that the two lexers tell   *)
(* apart, longer ones over fewer runes, and scripts with transactions.     *)
(***************************************************************************)
EXTENDS Executor

TextsUpTo(n, runes) == UNION {[1 .. k -> runes] : k \in 0 .. n}

\* Statements of one rune, each with its semicolon.
Script(words) == [i \in 1 .. 2 * Len(words) |-> IF i % 2 = 1 THEN words[(i + 1) \div 2] ELSE ";"]

MCText ==
  TextsUpTo(3, Rune \ {"b", "c"})
  \cup [1 .. 5 -> {"x", ";", "sq", "bs"}]
  \cup [1 .. 5 -> {"x", ";", "-", "sp", "nl"}]
  \cup [1 .. 5 -> {";", "/", "*"}]
  \cup [1 .. 4 -> {"x", ";", "#", "sq", "nl"}]
  \cup [1 .. 4 -> {"x", ";", "dq", "tick", "sq"}]
  \cup {Script(w) : w \in [1 .. 4 -> {"x", "b", "c"}]}
=============================================================================
