------------------------------ MODULE Executor ------------------------------
(***************************************************************************)
(* MySQLExecutor.Execute (internal/executor/mysql_executor.go): a script   *)
(* is split into pieces at its semicolons and the pieces are sent one by   *)
(* one over a pool that holds one connection at a time.                    *)
(*                                                                         *)
(* The driver (go-sql-driver/mysql 1.7.1, multiStatements=true) and the    *)
(* MySQL server are modelled from how the code uses them: the server reads *)
(* each piece by its own lexical rules, may find several statements in it, *)
(* and runs them until one is refused.                                     *)
(***************************************************************************)
EXTENDS Integers, SequencesExt

CONSTANT Text   \* scripts: sequences of runes

\* "sq" and "dq" are the quotes, "bs" the backslash, "tick" the backquote, "nl"
\* ends a line, "sp" is any other white space and "x" any other rune; a statement that is just "b" begins a
\* transaction and one that is just "c" commits it.
Rune == {"x", "b", "c", ";", "sq", "dq", "bs", "-", "/", "*", "nl", "sp", "#", "tick"}

ASSUME TextAssumption == Text \subseteq Seq(Rune)

VARIABLES
  text,                       \* the script
  pos, mode, start, stmts,    \* local variables of splitSQLStatements
  at, sent, result,           \* of Execute: its place, the pieces sent, its Result
  conn, packet, answer, db,   \* the connection, and what the server does with it
  ran, refused, broken        \* history: statements run; a statement was refused
                              \* on its merits; a connection or the clock failed

splitVars  == <<pos, mode, start, stmts>>
serverVars == <<conn, packet, answer, db, ran, refused>>
vars == <<text, splitVars, at, sent, result, serverVars, broken>>

-----------------------------------------------------------------------------
(* The lexical rules of the server.                                        *)

Blank == {"nl", "sp"}
RuneAt(t, i) == IF i \in DOMAIN t THEN t[i] ELSE "end"

Closing == [single |-> "sq", double |-> "dq", back |-> "tick", dash |-> "nl", hash |-> "nl"]
Comment == {"dash", "hash", "block"}
Pending == {"single", "double", "back", "block"}   \* what may not end a statement

\* What begins at a rune of plain code: two dashes begin a comment only
\* before white space or at the end.
Opened(r, n, n2) ==
  CASE r = "sq"                                            -> "single"
    [] r = "dq"                                            -> "double"
    [] r = "tick"                                          -> "back"
    [] r = "#"                                             -> "hash"
    [] r = "-" /\ n = "-" /\ n2 \in Blank \cup {"end"} -> "dash"
    [] r = "/" /\ n = "*"                                  -> "block"
    [] OTHER                                               -> "code"

\* The reading s of the runes before i, taken one rune further: the lexical
\* mode, whether the rune was read together with the one before, the statement
\* begun, without its comments, and the statements that ended.
ReadRune(t, s, i) ==
  LET r == t[i]
      n == RuneAt(t, i + 1)
      escape == s.mode \in {"single", "double"} /\ r = "bs"
      mode1  == CASE s.mode = "code"  -> Opened(r, n, RuneAt(t, i + 2))
                  [] s.mode = "block" -> IF r = "*" /\ n = "/" THEN "code" ELSE "block"
                  [] OTHER            -> IF r = Closing[s.mode] /\ ~escape
                                           THEN "code" ELSE s.mode
      word   == IF {s.mode, mode1} \cap Comment # {} \/ (s.mode = "code" /\ r \in Blank \cup {";"})
                  THEN s.stmt ELSE Append(s.stmt, r)
  IN IF s.pair
       THEN [s EXCEPT !.pair = FALSE,
                      !.stmt = IF s.mode \in {"single", "double"} THEN Append(@, r) ELSE @]
       ELSE [mode  |-> mode1,
             pair  |-> escape \/ (s.mode = "code" /\ mode1 = "block")
                              \/ (s.mode = "block" /\ mode1 = "code"),
             stmt  |-> IF s.mode = "code" /\ r = ";" THEN <<>> ELSE word,
             ended |-> IF s.mode = "code" /\ r = ";" /\ s.stmt # <<>>
                         THEN Append(s.ended, s.stmt) ELSE s.ended]

\* The reading of the first i runes.
Reading(t, i) ==
  LET after[j \in 0 .. Len(t)] ==
        IF j = 0 THEN [mode |-> "code", pair |-> FALSE, stmt |-> <<>>, ended |-> <<>>]
                 ELSE ReadRune(t, after[j - 1], j)
  IN after[i]

\* The statements the server finds in t; one that does not close is no
\* statement the server accepts.
Found(t) ==
  LET s == Reading(t, Len(t))
      last == IF s.mode \in Pending THEN <<[words |-> s.stmt, closed |-> FALSE]>>
              ELSE IF s.stmt = <<>> THEN <<>> ELSE <<[words |-> s.stmt, closed |-> TRUE]>>
  IN [k \in 1 .. Len(s.ended) |-> [words |-> s.ended[k], closed |-> TRUE]] \o last

\* What a statement does: it is kept at once, or with its transaction.
Rollback(d) == [d EXCEPT !.open = <<>>, !.tx = FALSE]
CommitAll(d) == [kept |-> d.kept \o d.open, open |-> <<>>, tx |-> FALSE]
Apply(d, w) ==
  CASE w = <<"b">> -> [CommitAll(d) EXCEPT !.tx = TRUE]
    [] w = <<"c">> -> CommitAll(d)
    [] d.tx        -> [d EXCEPT !.open = Append(@, w)]
    [] OTHER       -> [d EXCEPT !.kept = Append(@, w)]
EmptyDb == [kept |-> <<>>, open |-> <<>>, tx |-> FALSE]

\* What the statements of w do, one after the other, to an empty database.
Effect(w) ==
  LET after[j \in 0 .. Len(w)] == IF j = 0 THEN EmptyDb ELSE Apply(after[j - 1], w[j])
  IN after[Len(w)]

-----------------------------------------------------------------------------
Stmt == [words : Seq(Rune), closed : BOOLEAN]
Db   == [kept : Seq(Seq(Rune)), open : Seq(Seq(Rune)), tx : BOOLEAN]

TypeOK ==
  /\ text \in Text
  /\ pos \in 1 .. Len(text) + 1 /\ start \in 1 .. pos
  /\ mode \in {"code", "line", "block", "single", "double"}
  /\ stmts \in Seq(Seq(Rune) \ {<<>>})
  /\ at \in {"ping", "split", "exec", "wait", "close", "done"}
  /\ sent \in 0 .. Len(stmts)
  /\ result \in {"none", "success", "failed"}
  /\ (result = "none") = (at \notin {"close", "done"})
  /\ conn \in {"up", "down"}
  /\ packet \in Seq(Stmt) /\ answer \in {"ok", "error"}
  /\ db \in Db
  /\ ran \in Seq(Seq(Rune))
  /\ refused \in BOOLEAN /\ broken \in BOOLEAN

Init ==
  /\ text \in Text
  /\ pos = 1 /\ mode = "code" /\ start = 1 /\ stmts = <<>>
  /\ at = "ping" /\ sent = 0 /\ result = "none"
  /\ conn = "down" /\ packet = <<>> /\ answer = "ok" /\ db = EmptyDb
  /\ ran = <<>> /\ refused = FALSE /\ broken = FALSE

Return(r) == at' = "close" /\ result' = r

-----------------------------------------------------------------------------
(* splitSQLStatements.  Every rune read is written to the buffer, which is *)
(* therefore the text from start to before pos.                            *)

TrimSpace(t) ==
  LET kept == {i \in DOMAIN t : t[i] \notin Blank}
  IN IF kept = {} THEN <<>> ELSE SubSeq(t, Min(kept), Max(kept))

\* Fault: a piece is kept even if nothing is left of it.
FlushAlways == Append(stmts, TrimSpace(SubSeq(text, start, pos - 1)))

\* The buffer becomes a piece unless it is blank.
Flush == LET piece == TrimSpace(SubSeq(text, start, pos - 1))
         IN IF piece = <<>> THEN stmts ELSE Append(stmts, piece)

Reads(m, r) == at = "split" /\ pos \in DOMAIN text /\ mode = m /\ text[pos] = r
Next2 == RuneAt(text, pos + 1)

Advance(n, m) ==
  /\ pos' = pos + n
  /\ mode' = m
  /\ UNCHANGED <<text, start, stmts, at, sent, result, serverVars, broken>>

InLineComment(r) ==
  Reads("line", r) /\ Advance(1, IF r = "nl" THEN "code" ELSE "line")

InBlockComment(r) ==
  /\ Reads("block", r)
  /\ IF r = "*" /\ Next2 = "/" THEN Advance(2, "code") ELSE Advance(1, "block")

\* Fault: a backslash is a rune like any other.
InLiteralPlain(m, r) ==
  Reads(m, r) /\ Advance(1, IF r = Closing[m] THEN "code" ELSE m)

InLiteral(m, r) ==
  /\ Reads(m, r)
  /\ IF r = "bs" /\ Next2 # "end" THEN Advance(2, m)
     ELSE Advance(1, IF r = Closing[m] THEN "code" ELSE m)

StartsComment(r) == <<r, Next2>> \in {<<"-", "-">>, <<"/", "*">>}

StartComment(r) ==
  /\ Reads("code", r) /\ StartsComment(r)
  /\ Advance(2, IF r = "-" THEN "line" ELSE "block")

OpenLiteral(r) ==
  /\ Reads("code", r) /\ r \in {"sq", "dq"}
  /\ Advance(1, IF r = "sq" THEN "single" ELSE "double")

Cut ==
  /\ Reads("code", ";")
  /\ stmts' = Flush
  /\ pos' = pos + 1 /\ start' = pos + 1
  /\ UNCHANGED <<text, mode, at, sent, result, serverVars, broken>>

OtherRune(r) ==
  /\ Reads("code", r) /\ r \notin {";", "sq", "dq"} /\ ~StartsComment(r)
  /\ Advance(1, "code")

\* The rest is the last piece, whatever mode the text ends in; a script
\* without a piece is refused.
EndSplit ==
  /\ at = "split" /\ pos = Len(text) + 1
  /\ stmts' = Flush
  /\ start' = pos
  /\ IF stmts' = <<>> THEN Return("failed") ELSE at' = "exec" /\ UNCHANGED result
  /\ UNCHANGED <<text, pos, mode, sent, serverVars, broken>>

SplitStep ==
  \/ \E r \in Rune :
       \/ InLineComment(r) \/ InBlockComment(r)
       \/ InLiteral("single", r) \/ InLiteral("double", r)
       \/ StartComment(r) \/ OpenLiteral(r) \/ OtherRune(r)
  \/ Cut \/ EndSplit

-----------------------------------------------------------------------------
(* Execute: the first connection, one piece after the other, and the end.  *)

Ping ==
  /\ at = "ping"
  /\ at' = "split" /\ conn' = "up"
  /\ UNCHANGED <<text, splitVars, sent, result, packet, answer, db, ran, refused, broken>>

\* Fault: every piece goes over a connection of its own.
SendAlone ==
  /\ at = "exec" /\ conn = "up"
  /\ sent' = sent + 1
  /\ packet' = Found(stmts[sent + 1]) /\ answer' = "ok"
  /\ at' = "wait" /\ db' = Rollback(db)
  /\ UNCHANGED <<text, splitVars, result, conn, ran, refused, broken>>

\* ExecContext with the pool's connection: the packet is on its way.
Send ==
  /\ at = "exec" /\ conn = "up"
  /\ sent' = sent + 1
  /\ packet' = Found(stmts[sent + 1]) /\ answer' = "ok"
  /\ at' = "wait"
  /\ UNCHANGED <<text, splitVars, result, conn, db, ran, refused, broken>>

\* ExecContext finds the connection dead before it writes: database/sql opens
\* another one.  What the old one had not committed is lost; nobody is told.
Reconnect ==
  /\ at = "exec" /\ conn = "down"
  /\ conn' = "up" /\ db' = Rollback(db)
  /\ UNCHANGED <<text, splitVars, at, sent, result, packet, answer, ran, refused, broken>>

\* Fault: an error that says that a piece failed does not end the loop.
GoOn ==
  /\ at = "wait" /\ conn = "up" /\ packet = <<>>
  /\ IF sent < Len(stmts) THEN at' = "exec" /\ UNCHANGED result
                          ELSE Return(IF answer = "ok" THEN "success" ELSE "failed")
  /\ UNCHANGED <<text, splitVars, sent, serverVars, broken>>

\* The server has answered for the whole packet: the driver reads the results
\* of its statements to the last one.
Answered ==
  /\ at = "wait" /\ conn = "up" /\ packet = <<>>
  /\ IF answer = "error" THEN Return("failed")
     ELSE IF sent < Len(stmts) THEN at' = "exec" /\ UNCHANGED result
     ELSE Return("success")
  /\ UNCHANGED <<text, splitVars, sent, serverVars, broken>>

\* The connection ended while the packet was out: an error, and no second try.
AnswerLost ==
  /\ at = "wait" /\ conn = "down"
  /\ Return("failed")
  /\ UNCHANGED <<text, splitVars, sent, serverVars, broken>>

\* Fault: only the ping has a limit of time.
PingTimeout ==
  /\ at = "ping"
  /\ Return("failed")
  /\ conn' = "down" /\ broken' = TRUE
  /\ UNCHANGED <<text, splitVars, sent, packet, answer, db, ran, refused>>

\* The context ends after 30 seconds; or, at the ping, no connection can be made
\* or the password and address for one do not decrypt or parse.
Timeout ==
  /\ at \in {"ping", "exec", "wait"}
  /\ Return("failed")
  /\ conn' = "down" /\ broken' = TRUE
  /\ UNCHANGED <<text, splitVars, sent, packet, answer, db, ran, refused>>

\* The deferred db.Close.
Close ==
  /\ at = "close"
  /\ at' = "done" /\ conn' = "down"
  /\ UNCHANGED <<text, splitVars, sent, result, packet, answer, db, ran, refused, broken>>

ExecuteStep ==
  \/ Ping \/ SplitStep \/ Send \/ Reconnect \/ Answered \/ AnswerLost \/ Timeout \/ Close

-----------------------------------------------------------------------------
(* The server and the network.                                             *)

\* The next statement of the packet takes effect, whether anybody still waits.
Run ==
  /\ packet # <<>> /\ Head(packet).closed
  /\ ran' = Append(ran, Head(packet).words)
  /\ db' = Apply(db, Head(packet).words)
  /\ packet' = Tail(packet)
  /\ UNCHANGED <<text, splitVars, at, sent, result, conn, answer, refused, broken>>

\* It is refused, and the rest of the packet is not looked at.
Refuse ==
  /\ packet # <<>>
  /\ packet' = <<>> /\ answer' = "error"
  /\ refused' = (refused \/ Head(packet).closed)
  /\ UNCHANGED <<text, splitVars, at, sent, result, conn, db, ran, broken>>

\* The connection ends: a restart or failover, wait_timeout, KILL, the network.
Drop ==
  /\ conn = "up" /\ at \in {"exec", "wait"}
  /\ conn' = "down" /\ broken' = TRUE
  /\ UNCHANGED <<text, splitVars, at, sent, result, packet, answer, db, ran, refused>>

\* The server notices that a connection has ended.
Hangup ==
  /\ conn = "down" /\ at \in {"close", "done"}
  /\ packet # <<>> \/ db.tx
  /\ packet' = <<>> /\ db' = Rollback(db)
  /\ UNCHANGED <<text, splitVars, at, sent, result, conn, answer, ran, refused, broken>>

Next == ExecuteStep \/ Run \/ Refuse \/ Drop \/ Hangup

Spec == Init /\ [][Next]_vars

\* The handler's goroutine is scheduled, and the context of Execute ends.
\* Nothing is assumed of the server or the network.
FairSpec == Spec /\ WF_vars(SplitStep) /\ WF_vars(Timeout) /\ WF_vars(Close)

-----------------------------------------------------------------------------
(* What Execution assumes of its executor.                                 *)

Statements(t) == [k \in DOMAIN Found(t) |-> Found(t)[k].words]

\* The splitter and the server agree on what is a comment and what is quoted.
ReadAlike(t) ==
  /\ {"#", "tick"} \cap Range(t) = {}
  /\ \A i \in DOMAIN t : t[i] = "-" /\ RuneAt(t, i + 1) = "-"
                           => RuneAt(t, i + 2) \in Blank \cup {"end"}

\* The splitter does not know # comments and back quotes, and takes two dashes
\* for a comment in any case.  Where that makes it lose its way, no semicolon
\* may stand in a comment that ends with its line.
CutSafe(t) ==
  ReadAlike(t) \/ \A i \in DOMAIN t :
    t[i] = ";" => Reading(t, i - 1).mode \notin {"dash", "hash"}

\* The comments of the splitter, "Semicolons inside the above are ignored", and
\* its use in Execute: the server runs the statements the script is written of,
\* each once and in order, and all of them if the result is a success, wherever
\* the script is cut, whatever is lost on the way, and whoever still waits.
RunsAsWritten ==
  CutSafe(text) => /\ IsPrefix(ran, Statements(text))
                   /\ result = "success" => ran = Statements(text)

\* When all is over, a success has kept what the statements of the script keep:
\* everything, unless the script leaves a transaction open, or has one and lost
\* a connection that was replaced without a word.
KeptAsWritten ==
  /\ at = "done" /\ packet = <<>> /\ ~db.tx
  /\ result = "success" /\ CutSafe(text)
  /\ broken => <<"b">> \notin Range(Statements(text))
  => db.kept = Effect(Statements(text)).kept

\* "a failed SQL execution" (line 43) has a reason in the script, the database
\* or the network: cutting the script never makes up an error of its own.
FailureHasReason ==
  result = "failed" /\ ReadAlike(text) =>
    \/ refused \/ broken
    \/ Range(text) \subseteq Blank \cup {";"}
    \/ Reading(text, Len(text)).mode \in Pending

\* "maximum duration a single script may run": Execute returns, even if the
\* server never answers.
Returns == (at = "ping") ~> (at = "done")
=============================================================================
