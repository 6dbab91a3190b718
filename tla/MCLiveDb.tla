------------------------------ MODULE MCLiveDb ------------------------------
(***************************************************************************)
(* LiveDb on two databases of up to three rows, pages of two and handles   *)
(* on either side of what a float64 can hold.                              *)
(***************************************************************************)
EXTENDS LiveDb, TLC

MCDbs == <<"main", "cache">>
Row(a, b, c) == (1 :> a) @@ (4 :> b) @@ (5 :> c)

Start(a, b, c) ==
  [table |-> ("main" :> Row(a, b, c)) @@ ("cache" :> Row(Null, Gone, Gone)),
   registry |-> ("main" :> "writing") @@ ("cache" :> "reading")]

\* Neighbours that hold the same text, also past the bound, and a number and a
\* NULL beside the same digits as text.
MCStarts ==
  {Start(Str("1"), Str("1"), Str("1")), Start(Number("1"), Null, Str("1"))}

=============================================================================
