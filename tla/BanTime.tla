------------------------------- MODULE BanTime -------------------------------
(***************************************************************************)
(* Durations: TimeValue (time.rs), the ban time a jail computes from its   *)
(* settings and the history of the host (server/jail.rs, compute_bantime), *)
(* and its casts on the way to the ticket and the table.  The code's u64   *)
(* and i64 have 64 bits, here Width.                                       *)
(***************************************************************************)
EXTENDS Integers, Sequences, SequencesExt, Powers

CONSTANTS Width, LongestBan,   \* what chrono's durations and dates can hold
          None, Unset

(* A ban that chrono can hold fits the signed number that holds it.        *)
ASSUME WidthAssumption ==
    /\ Width \in Nat \ {0} /\ LongestBan \in Nat
    /\ LongestBan < Power(2, Width - 1)
    /\ None \notin Int /\ Unset \notin Int /\ None # Unset

MaxU == Power(2, Width) - 1
Saturated(n) == IF n > MaxU THEN MaxU ELSE n
AsSigned(n) == IF n >= Power(2, Width - 1) THEN n - Power(2, Width) ELSE n    \* as i64

-----------------------------------------------------------------------------
(* TimeValue::parse.  The forms of a duration: a word for a permanent one, *)
(* an integer, or <<number, unit>> pairs.  A negative integer is permanent *)
(* as well; numbers and sums saturate; a pair without a unit ends it.      *)
Seconds(unit) ==
    CASE unit = "y" -> 365 * 86400 [] unit = "mo" -> 30 * 86400
      [] unit = "w" -> 7 * 86400   [] unit = "d" -> 86400
      [] unit = "h" -> 3600        [] unit = "m" -> 60
      [] OTHER -> 1
TimeForm ==
    [kind : {"word"}] \cup [kind : {"integer"}, n : Int]
    \cup [kind : {"pairs"}, pairs : Seq(Nat \X STRING)]
AddPair(total, pair) == Saturated(total + Saturated(pair[1] * Seconds(pair[2])))
ParseTime(form) ==
    CASE form.kind = "word" -> None
      [] form.kind = "integer" -> IF form.n < 0 THEN None ELSE form.n
      [] form.kind = "pairs" ->
           LET bare == SelectInSeq(form.pairs, LAMBDA p : p[2] = "")
               last == IF bare = 0 THEN Len(form.pairs) ELSE bare
               sum[i \in 0..last] ==
                   IF i = 0 THEN 0 ELSE AddPair(sum[i - 1], form.pairs[i])
           IN  sum[last]

ToSecondsOrMax(time) == IF time = None THEN MaxU ELSE time

-----------------------------------------------------------------------------
(* Mutated form: the product wraps around.                                 *)
ScaledWrapping(base, factor, count) == (base * Power(factor, count)) % Power(2, Width)

(* base.saturating_mul(factor.saturating_pow(count)).                      *)
Scaled(base, factor, count) == Saturated(base * Saturated(Power(factor, count)))

(* The jitter: rand_u64_below(rndtime).                                    *)
Jitters(s) ==
    IF s.rndtime \in {Unset, 0} THEN {0} ELSE 0..(ToSecondsOrMax(s.rndtime) - 1)

(* compute_bantime of a jail with settings s for a host with count bans in *)
(* the history.  A maxtime or rndtime may be unset.  The last sum is plain *)
(* (in a release build it wraps around).                                   *)
ComputeBantime(s, count, jitter) ==
    LET base == ToSecondsOrMax(s.bantime)
        factor == IF s.factor = 0 THEN 1 ELSE s.factor
        scaled == Scaled(base, factor, count)
        max == IF s.maxtime = Unset THEN MaxU ELSE ToSecondsOrMax(s.maxtime)
    IN  IF ~s.increment THEN base
        ELSE ((IF scaled < max THEN scaled ELSE max) + jitter) % Power(2, Width)

(* ticket_from_fail and BanTicket::is_expired: the ban ends bantime after  *)
(* it began.  Of what is longer than chrono can hold, either way, the      *)
(* task panics.                                                            *)
Ticket(secs, count) == [bantime |-> AsSigned(secs), count |-> count]
Panics(secs) == AsSigned(secs) \notin -LongestBan..LongestBan
IsExpired(ticket, age) == age >= ticket.bantime
=============================================================================
