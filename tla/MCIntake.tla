------------------------------- MODULE MCIntake --------------------------------
(* Calls of one tool: every kind of argument alone, a few objects of them,   *)
(* and claims, stray keys and repeated keys around the plainest one.         *)
EXTENDS Intake

Empty == [p \in {} |-> Null]
A(leaf) == (<<"a">> :> leaf)
C(sub) == (<<"c">> :> Object) @@ Under(<<"c">>, sub)

\* With SafeBound = 2 and PlainBound = 4: a plain int and an unsafe one, a whole
\* float, one with a fraction, one that is unsafe, one written with an exponent.
Numbers == {Literal(1), Literal(3), Decimal(2), Decimal(3), Decimal(6), Decimal(10)}
Others == {[kind |-> "huge"], [kind |-> "constant"], Str("lone")}

Plain == A(Literal(1))
SomeArguments ==
  {A(leaf) : leaf \in Numbers \cup Others} \cup
  {Plain @@ (<<"b">> :> leaf) : leaf \in {Str("s"), Str("t"), Bool(TRUE), Decimal(2)}} \cup
  {Plain @@ C(<<"x">> :> leaf) : leaf \in {Literal(1), Decimal(2)}} \cup
  {Empty, Plain @@ (<<"zone">> :> Literal(1)), Plain @@ C(<<"y">> :> Literal(1)),
   A(Object) @@ Under(<<"a">>, A(Object) @@ Under(<<"a">>, A(Object)))}

Call(arguments, more) ==
  Once((<<>> :> Object) @@ (<<"tool">> :> Str("deploy")) @@ (<<"intent">> :> Str("release")) @@
       (<<"arguments">> :> Object) @@ Under(<<"arguments">>, arguments) @@ more)

Claim(value) == (<<"claims">> :> Array) @@ (<<"claims", "0">> :> Object) @@
                (<<"claims", "0", "value">> :> value)

\* The call with a part of it written once more.
Repeat(t, again) == [t EXCEPT !.again = again]

MCTexts ==
  {Call(arguments, Empty) : arguments \in SomeArguments} \cup
  {Call(Plain, more) :
     more \in {Claim(Null), Claim(Literal(3)),
               (<<"actor">> :> Object) @@ (<<"actor", "principal">> :> Literal(2)),
               (<<"zone">> :> Null) @@ (<<"actor">> :> Null)}} \cup
  {Repeat(Call(Plain, Empty), (<<"arguments", "a">> :> Literal(2))),
   Repeat(Call(Plain @@ C(<<"x">> :> Literal(1)), Empty), (<<"arguments", "c">> :> Object)),
   Once((<<>> :> Object) @@ (<<"tool">> :> Str("deploy")))}

Shaped(is) == [shaped |-> TRUE, is |-> is]
Ill(is) == [shaped |-> FALSE, is |-> is]

Closed(properties) ==
  ("type" :> Shaped("object")) @@ ("additionalProperties" :> Shaped(FALSE)) @@
  ("properties" :> Shaped(properties))

\* a alone, with what is said of it.
JustA(sub) == (<<>> :> Closed({"a"})) @@ (<<"a">> :> sub)
Nothing == [keyword \in {} |-> Shaped({})]

Typed ==
  (<<>> :> (Closed({"a", "b", "c"}) @@ ("required" :> Shaped({"a"})))) @@
  (<<"a">> :> (("type" :> Shaped("number")) @@ ("minimum" :> Shaped(2)) @@ ("maximum" :> Shaped(6)))) @@
  (<<"b">> :> (("enum" :> Shaped({Str("s"), Str("t"), IntOf(1)})) @@ ("pattern" :> Shaped({"s"})))) @@
  (<<"c">> :> (Closed({"x"}) @@ ("required" :> Shaped({"x"})))) @@
  (<<"c", "x">> :> ("type" :> Shaped("integer")))

\* The three last cannot be wholly applied: a keyword that is not supported, and
\* two whose value has the wrong shape, the one below the other.
MCSchemas == {
  JustA(Nothing),
  Typed,
  JustA("items" :> Shaped("number")),
  JustA("type" :> Ill("int")),
  (<<>> :> (Closed({"a"}) @@ ("required" :> Ill("a")))) @@ (<<"a">> :> Nothing)}
===============================================================================
