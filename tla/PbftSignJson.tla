---------------------------- MODULE PbftSignJson ----------------------------
(***************************************************************************)
(* The JSON form of a committee vote: MarshalJSON and UnmarshalJSON of     *)
(* core/types/gen_pbftSign_json.go.                                        *)
(*                                                                         *)
(* A vote is a record with the fields of types.PbftSign.  A JSON object is *)
(* a function from some of the four field names to values, NULL for JSON's *)
(* null; Malformed is an input that is no JSON object.                     *)
(***************************************************************************)
EXTENDS Naturals, Sequences

CONSTANTS
    Blocks,     \* a block stands for its number and for its hash
    ZeroHash,   \* common.Hash{}
    Results,    \* the values of PbftSign.Result that occur
    Signs,      \* the values of PbftSign.Sign that are signatures
    Malformed,  \* an input json.Unmarshal refuses
    NULL        \* Go's nil

ASSUME
    /\ ZeroHash \notin Blocks
    /\ Results \subseteq Nat /\ 0 \in Results

Fields == {"FastHeight", "FastHash", "Result", "Sign"}

\* Bytes that are no signature: the empty slice.
NoBytes == <<>>

PbftSign ==
    [FastHeight : Blocks \cup {NULL}, FastHash : Blocks \cup {ZeroHash},
     Result : Results, Sign : Signs \cup {NoBytes, NULL}]

\* var p PbftSign
ZeroSign ==
    [FastHeight |-> NULL, FastHash |-> ZeroHash, Result |-> 0, Sign |-> NULL]

\* MarshalJSON: all four fields.  A nil height is written as null, a nil
\* signature as the empty byte string "0x".
MarshalJSON(p) ==
    [f \in Fields |-> IF f = "Sign" /\ p.Sign = NULL THEN NoBytes ELSE p[f]]

\* A variant of UnmarshalJSON that does not copy the result.
UnmarshalJSONWithoutResult(p, input) ==
    IF input = Malformed
        THEN p
        ELSE [f \in Fields |->
                 IF f \in DOMAIN input \ {"Result"} /\ input[f] # NULL
                     THEN input[f] ELSE p[f]]

\* UnmarshalJSON into p: a field the input has, and that is not null, is
\* copied; every other field of p is left as it is.  On an input that is no
\* object it returns the error and leaves p alone.
UnmarshalJSON(p, input) ==
    IF input = Malformed
        THEN p
        ELSE [f \in Fields |->
                 IF f \in DOMAIN input /\ input[f] # NULL THEN input[f] ELSE p[f]]

=============================================================================
