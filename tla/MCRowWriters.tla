---------------------------- MODULE MCRowWriters ----------------------------
(* Writers of rows: Appender on a small table, ListColumn and NestedNulls  *)
(* with small vectors, ArrowImport with many buffers and little nesting    *)
(* ("arrow") or the other way round ("deep").  One run takes one of them;  *)
(* the variables of the others keep their first values.                    *)
EXTENDS RowWriters

CONSTANT Word

VARIABLE part

MCSlice(length, offset) == [length |-> length, offset |-> offset]
MCBits(count, nulls) == [count |-> count, nulls |-> nulls]
MCBuffer(a, b, c, d, e) == [i \in 0..5 |-> <<a, b, c, d, e, e>>[i + 1]]
MCViews(first, second, third) ==
    LET v(w) == [offset |-> w[1], size |-> w[2]]
    IN MCBuffer(v(first), v(second), v(third), v(<<0, 0>>), v(<<0, 0>>))

MCBatches == {MCSlice(2, 0), MCSlice(3, 0), MCSlice(2, 1)}
MCBitmaps == {MCBits(0, {}), MCBits(1, {2}), MCBits(-1, {2})}
MCListBuffers ==
    {MCBuffer(0, 1, 3, 3, 3), MCBuffer(1, 2, 3, 3, 3), MCBuffer(0, 0, 0, 0, 0),
     MCBuffer(1, 0, 2, 2, 2), MCBuffer(0, 2, 5, 5, 5), MCBuffer(-1, 0, 1, 2, 3)}
MCViewBuffers ==
    {MCViews(<<0, 1>>, <<1, 2>>, <<0, 0>>), MCViews(<<1, 1>>, <<0, 1>>, <<2, 0>>),
     MCViews(<<0, 1>>, <<2, 1>>, <<0, 0>>), MCViews(<<0, 2>>, <<1, 2>>, <<0, 0>>),
     MCViews(<<1, 1>>, <<-1, 1>>, <<0, 0>>)}
MCRuns == {[i \in 0..1 |-> <<1, 5>>[i + 1]]}

EB == INSTANCE ElementBytes

MCSlices == {MCSlice(5, 0), MCSlice(3, 0), MCSlice(3, 1)}
MCIndexBuffers == {MCBuffer(0, 1, 0, 1, 0), MCBuffer(0, 1, 3, 0, 0)}
MCTagBuffers == {MCBuffer(0, 1, 0, 1, 0)}

\* Two levels of any of these ("arrow", the extra slice only for the entries of
\* a map), and three levels with one buffer of each kind ("deep").
Wide(a) ==
    \A i \in DOMAIN a :
        <<a[i].length, a[i].offset>> = <<3, 0>> => i < Len(a) /\ a[i + 1].kind = "map"
Plainer == [list |-> MCBuffer(0, 1, 3, 3, 3), map |-> MCBuffer(0, 1, 3, 3, 3),
            view |-> MCViews(<<0, 2>>, <<1, 2>>, <<0, 0>>), dict |-> MCBuffer(0, 1, 0, 1, 0)]
Deep(a) ==
    \A i \in DOMAIN a :
        /\ a[i].length = 3
        /\ a[i].kind \notin IM!Unions => a[i].count # -1
        /\ a[i].kind \in DOMAIN Plainer => a[i].data = Plainer[a[i].kind]
        /\ a[i].kind = "fixed" => a[i].data <= 1

listVars == <<type, row_count, claimed, said, refused, list, entries, child, outcome, published>>
nullVars == <<mask, spread, revived>>
arrowVars == <<array, wraps, batch>>
MCvars == <<part, vars, listVars, nullVars, arrowVars>>

MCInit ==
    /\ part \in {"appender", "list", "nulls", "arrow", "deep"}
    /\ Init /\ LC!Init /\ NN!Init /\ IM!Init
    /\ part # "list" => type = EB!ElementType(EB!Leaf(2))
    /\ part # "appender" => eActive = 0 /\ eRows = {}

MCNext ==
    /\ UNCHANGED part
    /\ \/ part = "appender" /\ Next /\ UNCHANGED <<listVars, nullVars, arrowVars>>
       \/ part = "list" /\ LC!Next /\ UNCHANGED <<vars, nullVars, arrowVars>>
       \/ part = "nulls" /\ NN!Next /\ UNCHANGED <<vars, listVars, arrowVars>>
       \/ /\ part \in {"arrow", "deep"} /\ UNCHANGED <<vars, listVars, nullVars>>
          /\ \/ wraps < (IF part = "deep" THEN MaxWraps ELSE 2) /\ IM!Next
             \/ IM!Import \/ IM!Discard
          /\ part = "arrow" => Wide(array')
          /\ part = "deep" => Deep(array') /\ (batch' # None => batch'.length = 3 /\ batch'.offset = 0)

MCSpec == MCInit /\ [][MCNext]_MCvars

MCElementTypes ==
    {EB!ElementType(t) : t \in
        {EB!Leaf(2), EB!Struct({EB!Leaf(1), EB!Leaf(3)}),
         EB!Array(9, EB!Array(8, EB!Leaf(1)))}}
\* A STRUCT of a leaf and an ARRAY of ARRAYs.
MCVectors == {<<>>, <<1>>, <<2>>, <<2, 1>>, <<2, 1, 1>>}
MCArraySize == [v \in MCVectors |-> IF v \in {<<2>>, <<2, 1>>} THEN 2 ELSE 0]
=============================================================================
