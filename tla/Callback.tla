------------------------------ MODULE Callback ------------------------------
(***************************************************************************)
(* One callback DuckDB makes into an extension, through any of the macros  *)
(* of src/src/callback.rs: the body runs under catch_unwind, a panic's     *)
(* message goes to the error channel the callback has, and the payload is  *)
(* disposed of (callback/payload.rs), whose destructor is user code and    *)
(* may panic in its turn, with a payload whose destructor may panic.       *)
(***************************************************************************)
EXTENDS Naturals

CONSTANT None

VARIABLES
    macro,    \* the callback being run, or None
    stage,    \* "idle", "body", "disposing", "returned"
    trying,   \* a cast in TRY mode
    drops,    \* payload drops that panicked since the panic was caught
    payload,  \* which payload is to be dropped: "caught", or of the drops
              \* the last that panicked, told from the one before
    panicked, \* the panic's message: None, "" or "text"
    error,    \* what DuckDB was told: None, "" or "text"
    result    \* what else the callback leaves DuckDB with

cbVars == <<macro, stage, trying, drops, payload, panicked, error, result>>

-----------------------------------------------------------------------------
(* The macros.  `channel`: the callback can report an error.  `result` is  *)
(* what DuckDB reads beside the error.                                     *)

scalar_callback ==
    [name |-> "scalar", channel |-> TRUE, kind |-> "plain"]
table_scan_callback ==
    [name |-> "table_scan", channel |-> TRUE, kind |-> "scan"]
table_bind_callback ==
    [name |-> "table_bind", channel |-> TRUE, kind |-> "plain"]
table_init_callback ==
    [name |-> "table_init", channel |-> TRUE, kind |-> "plain"]
scalar_bind_callback ==
    [name |-> "scalar_bind", channel |-> TRUE, kind |-> "plain"]
scalar_init_callback ==
    [name |-> "scalar_init", channel |-> TRUE, kind |-> "plain"]
aggregate_update_callback ==
    [name |-> "aggregate_update", channel |-> TRUE, kind |-> "plain"]
aggregate_combine_callback ==
    [name |-> "aggregate_combine", channel |-> TRUE, kind |-> "plain"]
aggregate_finalize_callback ==
    [name |-> "aggregate_finalize", channel |-> TRUE, kind |-> "plain"]
aggregate_destroy_callback ==
    [name |-> "aggregate_destroy", channel |-> FALSE, kind |-> "plain"]
cast_callback ==
    [name |-> "cast", channel |-> TRUE, kind |-> "cast"]
replacement_scan_callback ==
    [name |-> "replacement_scan", channel |-> TRUE, kind |-> "replacement"]
copy_callback_impl ==
    [name |-> "copy", channel |-> TRUE, kind |-> "plain"]
copy_sink_callback ==
    [name |-> "copy_sink", channel |-> TRUE, kind |-> "plain"]

Macros ==
    {scalar_callback, table_scan_callback, table_bind_callback,
     table_init_callback, scalar_bind_callback, scalar_init_callback,
     aggregate_update_callback, aggregate_combine_callback,
     aggregate_finalize_callback, aggregate_destroy_callback, cast_callback,
     replacement_scan_callback, copy_callback_impl, copy_sink_callback}

MAX_NESTED_PAYLOAD_DROPS == 8

\* An empty message, which DuckDB shows as a bare prefix or takes for no error,
\* gets a placeholder.
error_cstring(message) == IF message = "" THEN "text" ELSE message

\* Mutant: the message is handed over as it is.
panic_c_message_raw(message) == message

panic_c_message(message) == error_cstring(message)

\* A cast that is not a TRY starts with CAST_FAILED_WITHOUT_MESSAGE set, which
\* DuckDB looks at only if the cast fails.
CAST_FAILED_WITHOUT_MESSAGE(m, try) ==
    IF m = cast_callback /\ ~try THEN "text" ELSE None

\* What the output holds before the body writes to it.
Fresh(m) == IF m.kind = "scan" THEN "empty"
            ELSE IF m.kind = "cast" THEN "false" ELSE "unset"

Init ==
    /\ macro = None /\ stage = "idle" /\ trying = FALSE
    /\ drops = 0 /\ payload = "caught"
    /\ panicked = None /\ error = None /\ result = "unset"

\* DuckDB calls.
Enter(m, try) ==
    /\ stage \in {"idle", "returned"}
    /\ try => m = cast_callback
    /\ macro' = m /\ stage' = "body" /\ trying' = try
    /\ drops' = 0 /\ payload' = "caught" /\ panicked' = None
    /\ error' = CAST_FAILED_WITHOUT_MESSAGE(m, try)
    /\ result' = Fresh(m)

\* The body writes to its output before it ends: rows, a cast's values, the
\* function a replacement scan puts in the table's place.
BodyWrites ==
    /\ stage = "body"
    /\ result' = IF macro.kind = "scan" THEN "rows" ELSE "written"
    /\ UNCHANGED <<macro, stage, trying, drops, payload, panicked, error>>

\* The body returns, having reported `e` through the `set_error` of its info, or
\* nothing.  A cast's body answers whether it succeeded, and has nulled its
\* failed rows in TRY mode.
BodyReturns(e, ok) ==
    /\ stage = "body"
    /\ macro.kind # "cast" => ok
    /\ e # None => macro.channel
    /\ stage' = "returned"
    /\ error' = IF e = None THEN error ELSE error_cstring(e)
    /\ result' = IF macro.kind = "cast"
                 THEN IF ok THEN "true" ELSE IF trying THEN "nulls" ELSE "false"
                 ELSE result
    /\ UNCHANGED <<macro, trying, drops, payload, panicked>>

\* The body unwinds.
BodyPanics(message) ==
    /\ stage = "body"
    /\ stage' = "disposing" /\ panicked' = message
    /\ UNCHANGED <<macro, trying, drops, payload, error, result>>

\* Mutant: a second panic is not counted.
AfterPanickingDropUncounted(n) == n

\* `drop_panic_payload`'s loop counts the drops that panicked.
AfterPanickingDrop(n) == n + 1

\* One turn of the loop: the payload's destructor panics, under a guard, and
\* what it panics with is the next payload.
DropPanics ==
    /\ stage = "disposing" /\ drops < MAX_NESTED_PAYLOAD_DROPS
    /\ drops' = AfterPanickingDrop(drops)
    /\ payload' = IF payload = "odd" THEN "even" ELSE "odd"
    /\ UNCHANGED <<macro, stage, trying, panicked, error, result>>

\* What the macro leaves after a panic: no rows, a cast that failed, with
\* every row of a TRY_CAST nulled by its error.
ResultAfterPanic(m, try) ==
    CASE m.kind = "scan" -> "empty"
      [] m.kind = "cast" -> IF try THEN "nulls" ELSE "false"
      [] OTHER -> result

\* The loop ends: a drop returned, or the last payload is forgotten.  The
\* message, which was copied before, is reported where there is a channel; a
\* destructor has none, and its panic is swallowed.
Disposed ==
    /\ stage = "disposing"
    /\ stage' = "returned"
    /\ error' = IF macro.channel THEN panic_c_message(panicked) ELSE error
    /\ result' = ResultAfterPanic(macro, trying)
    /\ UNCHANGED <<macro, trying, drops, payload, panicked>>

DropReturns == drops < MAX_NESTED_PAYLOAD_DROPS /\ Disposed
Forgotten == drops = MAX_NESTED_PAYLOAD_DROPS /\ Disposed

PanicMessages == {"", "text"}

Next ==
    \/ \E m \in Macros, try \in BOOLEAN : Enter(m, try)
    \/ BodyWrites
    \/ \E e \in PanicMessages \cup {None}, ok \in BOOLEAN : BodyReturns(e, ok)
    \/ \E message \in PanicMessages : BodyPanics(message)
    \/ DropPanics \/ DropReturns \/ Forgotten

\* The loop is the wrapper's own code, on the thread DuckDB called on: it goes
\* on.  That a body, or DuckDB, goes on is not assumed.
Fairness == WF_cbVars(DropPanics \/ DropReturns \/ Forgotten)

Spec == Init /\ [][Next]_cbVars /\ Fairness

-----------------------------------------------------------------------------
(* What DuckDB makes of a callback that returned: `replacement_scan` raises *)
(* only an error with a message, a cast is read by its result.             *)

TakenForSuccess ==
    CASE macro.kind = "replacement" -> error # "text"
      [] macro.kind = "cast" -> IF trying THEN result # "nulls"
                                ELSE result # "false"
      [] OTHER -> error = None

\* A panic is never taken for success and never reported without a message:
\* wherever DuckDB can be told, the call fails with one, a scan that panicked
\* leaves no rows behind its error, and no row of a panicked cast has a value
\* (callback.rs, "Panic-safe callback wrapper macros").  What a body reports
\* without a panic has a message, too, and so has any cast that fails.
PanicsReported ==
    stage = "returned" =>
        /\ panicked # None /\ macro.channel =>
              ~TakenForSuccess /\ error = "text" /\ result # "rows"
        /\ error # ""
        /\ macro.kind = "cast" /\ ~trying /\ result = "false" => error # None

\* A payload whose destructor panics, again and again, does not keep the
\* callback from returning (payload.rs, MAX_NESTED_PAYLOAD_DROPS).
DisposalEnds == (stage = "disposing") ~> (stage # "disposing")
=============================================================================
