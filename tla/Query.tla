-------------------------------- MODULE Query --------------------------------
(***************************************************************************)
(* Running SQL from an extension (src/src/query.rs, query/result.rs,       *)
(* query/prepared.rs, query/connection.rs): one OwnedConnection, the       *)
(* results a caller holds and reads chunk by chunk, a prepared statement,  *)
(* and another thread with an InterruptHandle.  The engine (external)      *)
(* streams at most one result per connection.                              *)
(***************************************************************************)
EXTENDS Naturals

CONSTANTS
    Results,    \* the results a caller may hold at once
    Messages,   \* what the engine's error messages may be: "utf8", "bytes"
    MaxChunks,  \* bound: chunks of a result
    None

VARIABLES
    engine,     \* "1.5" or "2.0"
    results,    \* each QueryResult, and the engine's side of it
    bound,      \* whether the prepared statement's parameter is bound
    interrupted \* ClientContext::interrupted

qVars == <<engine, results, bound, interrupted>>

\* `fetch` is FetchState; `left` are the chunks the engine has still to give,
\* `source` is how it has them; `read` and `total` are counted for the
\* properties, and `answer` is what the last `next_chunk` returned.
NoResult == [fetch |-> "none", source |-> "none", left |-> 0, total |-> 0,
             read |-> 0, answer |-> "none"]

\* `QueryResult::new`.
FromEngine(source, chunks) ==
    [fetch |-> "open", source |-> source, left |-> chunks, total |-> chunks,
     read |-> 0, answer |-> "none"]

Init ==
    /\ engine \in {"1.5", "2.0"}
    /\ results = [r \in Results |-> NoResult]
    /\ bound = FALSE /\ interrupted = FALSE

Held == {r \in Results : results[r].fetch # "none"}
Streams == {r \in Held : results[r].source = "stream"}

\* What another statement does to an open stream: DuckDB 2.0 refuses the
\* statement, 1.5 runs it and invalidates the stream.
Refused == engine = "2.0" /\ Streams # {}
Invalidated(rs) ==
    [r \in Results |-> IF r \in Streams THEN [rs[r] EXCEPT !.source = "invalid"]
                       ELSE rs[r]]

\* `query`, `execute` and `PreparedStatement::execute`: the statement runs to
\* its end, or fails, and a failed one leaves no result.
Statement(r) ==
    /\ \/ Refused /\ UNCHANGED <<results, interrupted>>
       \/ /\ ~Refused
          /\ interrupted' = FALSE
          /\ \/ results' = Invalidated(results)
             \/ /\ results[r] = NoResult
                /\ \E n \in 0..MaxChunks :
                      results' = [Invalidated(results) EXCEPT
                                     ![r] = FromEngine("whole", n)]
    /\ UNCHANGED engine

query(r) == Statement(r) /\ UNCHANGED bound

\* `bind_*`, which a refused binding leaves as it was, and `clear_bindings`.
bind(b) ==
    /\ b # bound
    /\ bound' = b
    /\ UNCHANGED <<engine, results, interrupted>>

\* A statement with a parameter unbound does not run.
execute(r) ==
    /\ IF bound THEN Statement(r) ELSE UNCHANGED <<engine, results, interrupted>>
    /\ UNCHANGED bound

\* The engine may materialise all the same, or stream.
execute_streaming(r) ==
    /\ bound /\ ~Refused /\ results[r] = NoResult
    /\ interrupted' = FALSE
    /\ \E source \in {"stream", "whole"}, n \in 0..MaxChunks :
          results' = [Invalidated(results) EXCEPT ![r] = FromEngine(source, n)]
    /\ UNCHANGED <<engine, bound>>

\* `InterruptHandle::cancel`, at any moment, from another thread.
interrupt ==
    /\ ~interrupted /\ interrupted' = TRUE
    /\ UNCHANGED <<engine, results, bound>>

-----------------------------------------------------------------------------
(* Reading.                                                                *)

\* What `duckdb_fetch_chunk` comes to: a chunk, null at the end, or null with
\* an error message on the result.  A stream executes as it is read, and may
\* fail at any chunk.
Fetches(r) ==
    LET ends == IF results[r].left > 0 THEN {"chunk"} ELSE {"end"} IN
    CASE results[r].source = "whole" -> ends
      [] results[r].source = "stream" /\ ~interrupted -> ends \cup Messages
      [] OTHER -> Messages

\* Mutant: a null chunk is the end of the rows.
AfterNullAlwaysEnd(got) == "ended"

\* Mutant: a failure is reported, but not remembered.
AfterNullStaysOpen(got) == IF got = "utf8" THEN "open" ELSE "ended"

\* `c_str_to_owned` of `duckdb_result_error`: no message, or one that is not
\* UTF-8, reads as None.
AfterNull(got) == IF got = "utf8" THEN "failed" ELSE "ended"

next_chunk(r) ==
    /\ r \in Held
    /\ IF results[r].fetch = "open"
       THEN \E got \in Fetches(r) :
               results' = [results EXCEPT ![r] =
                   IF got = "chunk"
                   THEN [@ EXCEPT !.left = results[r].left - 1,
                                  !.read = results[r].read + 1, !.answer = "chunk"]
                   ELSE [@ EXCEPT !.fetch = AfterNull(got), !.answer = AfterNull(got),
                                  !.source = IF got = "end" THEN "whole"
                                             ELSE "invalid"]]
       \* asked again, it answers the same without asking DuckDB
       ELSE results' = [results EXCEPT ![r].answer = results[r].fetch]
    /\ UNCHANGED <<engine, bound, interrupted>>

\* `Drop`, of a result read to its end or not.
drop_result(r) ==
    /\ r \in Held
    /\ results' = [results EXCEPT ![r] = NoResult]
    /\ UNCHANGED <<engine, bound, interrupted>>

Next ==
    \/ \E r \in Results :
          \/ query(r) \/ execute(r) \/ execute_streaming(r)
          \/ next_chunk(r) \/ drop_result(r)
    \/ \E b \in BOOLEAN : bind(b)
    \/ interrupt

\* `next_chunk` calls itself once it has taken note of a null chunk, and a
\* caller reads in a loop, `while let Some(chunk) = next_chunk()?`: both go on
\* until they are told to stop.
Reading(r) == results[r].answer \in {"chunk", "open"}
Drain(r) == Reading(r) /\ next_chunk(r)
Fairness == \A r \in Results : WF_qVars(Drain(r))

Spec == Init /\ [][Next]_qVars /\ Fairness

-----------------------------------------------------------------------------

\* `Ok(None)` means that every row has been read: rows that stopped early are
\* an error, whether the query failed, was interrupted, or lost its stream to
\* another statement (result.rs, `next_chunk`).
EndedMeansComplete ==
    \A r \in Held : results[r].answer = "ended" => results[r].read = results[r].total

\* A caller that reads in a loop stops, whatever becomes of the result, and
\* neither an interrupt nor another statement in between keeps it going.
DrainEnds == \A r \in Results : Reading(r) ~> ~Reading(r)
=============================================================================
