----------------------------- MODULE Interpolation -----------------------------
(***************************************************************************)
(* config/interpolator.rs.  A value is a text: a sequence of pieces, each  *)
(* of which is plain text or one of the forms the interpolator knows.      *)
(*   %(section/key)s   [kind |-> "var", section, key]; section "" if none  *)
(*   <key>             [kind |-> "tag", section |-> "", key]               *)
(*   <known/key>       [kind |-> "tag", section |-> "known", key]          *)
(*   <lt_type/key>     [kind |-> "pick", section |-> "lt", type, key]      *)
(* and "ipt" likewise.  A value that cannot be read (a '%' without its     *)
(* parenthesis) is a piece of kind "bad".  Tags within tags are left out.  *)
(***************************************************************************)
EXTENDS Integers, Sequences, SequencesExt

CONSTANT MaxDepth      \* MAX_DEPTH, how deep values may refer to values
ASSUME DepthAssumption == MaxDepth \in Nat

Piece ==
    [kind : {"text"}, is : STRING] \cup [kind : {"bad"}]
    \cup [kind : {"var", "tag"}, section : STRING, key : STRING]
    \cup [kind : {"pick"}, section : {"lt", "ipt"}, type : STRING, key : STRING]
Text == Seq(Piece)

(* A context: doc, a document, which is a function from section names to   *)
(* functions from keys to texts; the functions defaults, builtins, init    *)
(* and known; and section, the name of the current section.                *)
Fail == [ok |-> FALSE, text |-> <<>>]
Done(text) == [ok |-> TRUE, text |-> text]

(* f, and what it does not say, g.                                         *)
Over(f, g) ==
    [x \in DOMAIN f \cup DOMAIN g |-> IF x \in DOMAIN f THEN f[x] ELSE g[x]]
Only(x, y) == [z \in {x} |-> y]

(* A sequence written as a function, as the tuple that it is.              *)
Tuple(f) == f \o <<>>

SectionOf(doc, name) == IF name \in DOMAIN doc THEN doc[name] ELSE <<>>

FirstWith(maps, key) ==
    LET k == SelectInSeq(maps, LAMBDA m : key \in DOMAIN m)
    IN  IF k = 0 THEN Fail ELSE Done(maps[k][key])

LookupPercent(p, ctx) ==
    FirstWith(CASE p.section = "default" -> <<ctx.defaults, ctx.builtins>>
                [] p.section = "known" -> <<ctx.known, ctx.init>>
                [] p.section = "" -> <<SectionOf(ctx.doc, ctx.section),
                                       ctx.defaults, ctx.builtins>>
                [] OTHER -> <<SectionOf(ctx.doc, p.section)>>, p.key)

(* The section a tag like <lt_logtype/key> picks: by the value that the    *)
(* type has as a parameter or as a default, or by its own name.            *)
Picked(p, ctx) ==
    LET type == FirstWith(<<ctx.init, ctx.defaults>>, p.type)
        name == IF ~type.ok THEN p.type
                ELSE IF type.text = <<>> THEN "" ELSE type.text[1].is
    IN  SectionOf(ctx.doc, p.section \o "_" \o name)

LookupTag(p, ctx) ==
    CASE p.kind = "pick" ->
           IF p.key \in DOMAIN Picked(p, ctx)
           THEN Done(Picked(p, ctx)[p.key]) ELSE Done(<<>>)
      [] p.kind = "tag" /\ p.section = "known" ->
           FirstWith(<<ctx.init, ctx.known>>, p.key)
      [] OTHER -> FirstWith(<<ctx.init, ctx.defaults, ctx.builtins>>, p.key)

Lookup(p, ctx) ==
    CASE p.kind = "var" -> LookupPercent(p, ctx)
      [] p.kind \in {"tag", "pick"} -> LookupTag(p, ctx)
      [] OTHER -> Fail

(* What stays as it is: plain text, and a tag that is no variable.         *)
Literal(p, ctx) ==
    \/ p.kind = "text"
    \/ p.kind = "tag" /\ p.section = "" /\ ~LookupTag(p, ctx).ok

Joined(parts) ==
    IF \A i \in DOMAIN parts : parts[i].ok
    THEN Done(FlattenSeq(Tuple([i \in DOMAIN parts |-> parts[i].text]))) ELSE Fail

(* interpolate_inner: within[n] is what a text comes out as that is met n  *)
(* levels above the one where the depth exceeds the limit.                 *)
Nested(text, ctx, levels) ==
    LET within[n \in 0..levels] ==
            [t \in Text |->
                IF n = 0 THEN Fail
                ELSE Joined(Tuple([i \in DOMAIN t |->
                        IF Literal(t[i], ctx) THEN Done(<<t[i]>>)
                        ELSE LET value == Lookup(t[i], ctx)
                             IN  IF value.ok THEN within[n - 1][value.text]
                                 ELSE Fail]))]
    IN  within[levels][text]

(* Mutated form: the limit is off by one.                                  *)
InterpolateShallow(text, ctx) == Nested(text, ctx, MaxDepth)

(* interpolate begins at depth 0, and depth > MAX_DEPTH is an error.       *)
Interpolate(text, ctx) == Nested(text, ctx, MaxDepth + 1)

(* Both places that interpolate a value keep it as it is on an error.      *)
Interpolated(text, ctx) ==
    LET value == Interpolate(text, ctx)
    IN  IF value.ok THEN value.text ELSE text
=============================================================================
