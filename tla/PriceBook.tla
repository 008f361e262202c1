----------------------------- MODULE PriceBook -----------------------------
(***************************************************************************)
(* The price list of one (model, kind): immutable versions appended by     *)
(* operators whose HTTP calls may be answered late, lost and sent again;   *)
(* and the requests priced from it, which pin the version in force when    *)
(* they are admitted, hold the price of their upper bounds and are charged *)
(* for what the upstream reports in the end.                               *)
(*                                                                         *)
(* Time is in nanoseconds, NanosPerMicro of them to the microsecond the    *)
(* database stores.  Amounts are integers of at most MaxInt, and a rate is *)
(* charged per Mtok units: the code's 2^63-1 and 1,000,000 at a small      *)
(* scale.                                                                  *)
(***************************************************************************)
EXTENDS Integers, Sequences, FiniteSets

CONSTANTS Ops,             \* operators appending versions
          Rates,           \* micros per Mtok units a version may charge
          Mtok,            \* units the rate is for
          MaxInt,          \* largest amount
          Froms, Tos,      \* instants a request body may carry; 0 is absent
          NanosPerMicro,   \* nanoseconds in a microsecond
          Tokens,          \* token counts
          Context, MaxOut, \* the model's context and output limits
          MaxNow, MaxRev, MaxSends

VARIABLES prices,  \* the stored versions, in order of revision
          now,
          op,      \* operator -> the create call it is in
          sent,    \* revision -> bodies whose create has committed
          sends,   \* calls begun
          req      \* the request being priced

pricevars == <<prices, now, op, sent, sends, req>>

Absent == -1          \* a bucket the provider did not report
Failed == -1          \* an amount that could not be computed
-----------------------------------------------------------------------------
(* Exact arithmetic.                                                       *)

\* Sum of two amounts, refused when it does not fit.
Add(a, b) == IF a = Failed \/ b = Failed \/ a + b > MaxInt THEN Failed ELSE a + b

\* num * units / Mtok, rounded as told; the product is exact (big.Int).
MicrosForUnits(rate, units, mode) ==
    LET q == (rate * units) \div Mtok
        rem == (rate * units) % Mtok
        r == IF mode = "up" /\ rem > 0 THEN q + 1 ELSE q
    IN IF r > MaxInt THEN Failed ELSE r

\* What is sold rounds against the customer, what is bought rounds down.
RoundingFor(kind) == IF kind = "upstream_cost" THEN "down" ELSE "up"

\* The stored time: PostgreSQL rounds to the microsecond, half to even.
Stored(t) ==
    LET lower == (t \div NanosPerMicro) * NanosPerMicro
        upper == lower + NanosPerMicro
        even(x) == (x \div NanosPerMicro) % 2 = 0
    IN IF t - lower < upper - t \/ (t - lower = upper - t /\ even(lower)) THEN lower ELSE upper

\* MUTANT: rounds half away from zero, as time.Round does.
RoundAway(t) ==
    LET us == t \div NanosPerMicro
        rem == t % NanosPerMicro
    IN (IF 2 * rem >= NanosPerMicro THEN us + 1 ELSE us) * NanosPerMicro

\* The same rounding in integer arithmetic, as the service computes it.
pgRoundMicros(t) ==
    LET us == t \div NanosPerMicro
        rem == t % NanosPerMicro
    IN (IF 2 * rem > NanosPerMicro \/ (2 * rem = NanosPerMicro /\ us % 2 # 0) THEN us + 1 ELSE us)
         * NanosPerMicro
-----------------------------------------------------------------------------
(* Appending a version.                                                    *)

\* What a request body says; from = 0 and to = 0 are absent fields.
Bodies == [rev : 1 .. MaxRev, rate : Rates, from : Froms, to : Tos]
NoOp == [pc |-> "idle", body |-> [rev |-> 0, rate |-> 0, from |-> 0, to |-> 0], from |-> 0]

pgTimeEqual(a, b) == pgRoundMicros(a) = pgRoundMicros(b)

\* The revision matches by the lookup; rates and both ends of the range decide.
samePriceVersionContent(row, body, from) ==
    /\ row.rate = body.rate
    /\ pgTimeEqual(row.from, from)
    /\ (row.to = 0) = (body.to = 0)
    /\ (row.to # 0 => pgTimeEqual(row.to, body.to))

GetPriceVersionByRevision(rev) == rev \in 1 .. Len(prices)
MaxPriceVersionRevisionTx == Len(prices)

\* The checks before anything is read; the range is compared as stored.
Validate(body, from) == body.to = 0 \/ pgRoundMicros(body.to) > pgRoundMicros(from)

Goto(o, r) == op' = [op EXCEPT ![o] = r]

\* A create call: an absent effective_from is the service's clock.  A revision
\* that exists is answered 409, told apart as a replay or a conflict.
Create(o) ==
    /\ op[o].pc = "idle" /\ sends < MaxSends
    /\ sends' = sends + 1
    /\ \E body \in Bodies :
         LET from == IF body.from = 0 THEN now ELSE body.from IN
         /\ Validate(body, from)
         /\ Goto(o, IF GetPriceVersionByRevision(body.rev)
                      THEN [pc |-> IF samePriceVersionContent(prices[body.rev], body, from)
                                     THEN "duplicate" ELSE "conflict", body |-> body, from |-> from]
                      ELSE [pc |-> "max", body |-> body, from |-> from])
    /\ UNCHANGED <<prices, now, sent, req>>

\* Revisions are appended without gaps.
NextRevision(rev) == rev = MaxPriceVersionRevisionTx + 1

CheckMax(o) ==
    /\ op[o].pc = "max"
    /\ Goto(o, IF NextRevision(op[o].body.rev) THEN [op[o] EXCEPT !.pc = "insert"] ELSE NoOp)
    /\ UNCHANGED <<prices, now, sent, sends, req>>

\* The insert, its audit row and COMMIT; UNIQUE(model, kind, revision) makes
\* the loser of a race read the winner's row and answer as above.
InsertPriceVersionTx(o) ==
    LET body == op[o].body
        from == op[o].from
    IN /\ op[o].pc = "insert"
       /\ IF body.rev <= Len(prices)
            THEN /\ Goto(o, [op[o] EXCEPT !.pc = IF samePriceVersionContent(prices[body.rev], body, from)
                                                   THEN "duplicate" ELSE "conflict"])
                 /\ UNCHANGED <<prices, sent>>
            ELSE /\ prices' = Append(prices, [rate |-> body.rate, from |-> Stored(from),
                                              to |-> IF body.to = 0 THEN 0 ELSE Stored(body.to)])
                 /\ sent' = sent \cup {body}
                 /\ Goto(o, NoOp)
       /\ UNCHANGED <<now, sends, req>>

\* The caller has its answer, or gave up waiting for one.
Answered(o) ==
    /\ op[o].pc \in {"duplicate", "conflict"}
    /\ Goto(o, NoOp)
    /\ UNCHANGED <<prices, now, sent, sends, req>>

Tick ==
    /\ now < MaxNow
    /\ now' = now + 1
    /\ UNCHANGED <<prices, op, sent, sends, req>>
-----------------------------------------------------------------------------
(* Pricing a request.                                                      *)

EffectiveAt(p, at) == p.from <= at /\ (p.to = 0 \/ at < p.to)

\* The highest revision in force at an instant; 0 when there is none.
LatestPriceVersion(at) ==
    LET live == {r \in 1 .. Len(prices) : EffectiveAt(prices[r], at)}
    IN IF live = {} THEN 0 ELSE CHOOSE r \in live : \A s \in live : s <= r

\* Safe upper bounds of a request.
InputBound(estimate) == IF estimate > Context THEN Context ELSE estimate
EffectiveOutputCap(client) == IF client # Absent /\ client < MaxOut THEN client ELSE MaxOut

\* MUTANT: the bound rounds to the nearest below.
ReserveDown(rate, in, out) ==
    LET line(units) == MicrosForUnits(rate, units, "down")
    IN Add(Add(Add(line(in), line(in)), line(in)), line(out))

\* Input, cache read and cache write are each bounded by the input bound.
ReserveAmount(rate, in, out) ==
    LET line(units) == MicrosForUnits(rate, units, "up")
    IN Add(Add(Add(line(in), line(in)), line(in)), line(out))

\* What a provider reports of the tokens it used: totals may include the
\* cached and the reasoning tokens that are also reported on their own.
Truths == [fresh : Tokens, read : Tokens, write : Tokens, text : Tokens, think : Tokens]
Inclusions == [read : BOOLEAN, write : BOOLEAN, think : BOOLEAN]
Reported(t, inc) ==
    [input |-> t.fresh + (IF inc.read THEN t.read ELSE 0) + (IF inc.write THEN t.write ELSE 0),
     read |-> t.read, write |-> t.write,
     output |-> t.text + (IF inc.think THEN t.think ELSE 0), think |-> t.think]

\* A part cannot exceed the total it is included in.
subBucket(base, part) == IF base = Failed \/ part > base THEN Failed ELSE base - part

\* MUTANT: the cached input tokens are left in the input bucket.
BillableTwice(raw, inc) ==
    [input |-> IF inc.write THEN subBucket(raw.input, raw.write) ELSE raw.input,
     read |-> raw.read, write |-> raw.write,
     output |-> IF inc.think THEN raw.output ELSE raw.output + raw.think]

\* Disjoint buckets: overlaps are taken out, separate reasoning is output.
BillableBuckets(raw, inc) ==
    LET in1 == IF inc.read THEN subBucket(raw.input, raw.read) ELSE raw.input
    IN [input |-> IF inc.write THEN subBucket(in1, raw.write) ELSE in1,
        read |-> raw.read, write |-> raw.write,
        output |-> IF inc.think THEN raw.output ELSE raw.output + raw.think]

\* One rate for every bucket; each line rounds on its own, the sum must fit.
Quote(rate, b, kind) ==
    LET line(units) == MicrosForUnits(rate, units, RoundingFor(kind))
    IN IF b.input = Failed THEN Failed
       ELSE Add(Add(Add(line(b.input), line(b.read)), line(b.write)), line(b.output))

NoReq == [pc |-> "none", price |-> 0, at |-> 0, rate |-> 0, in |-> 0, out |-> 0, hold |-> 0,
          charge |-> 0, cost |-> 0, truth |-> [fresh |-> 0, read |-> 0, write |-> 0, text |-> 0, think |-> 0]]

\* Admission: no version in force, or a bound that cannot be priced, refuses.
pinCreditPrice ==
    /\ req.pc = "none"
    /\ \E estimate \in Tokens, client \in Tokens \cup {Absent} :
         LET p == LatestPriceVersion(now)
             in == InputBound(estimate)
             out == EffectiveOutputCap(client)
             hold == ReserveAmount(prices[p].rate, in, out)
         IN /\ client # 0 /\ p # 0 /\ hold # Failed
            /\ req' = [NoReq EXCEPT !.pc = "held", !.price = p, !.at = now, !.rate = prices[p].rate,
                                    !.in = in, !.out = out, !.hold = hold]
    /\ UNCHANGED <<prices, now, op, sent, sends>>

\* MUTANT: the version in force when the answer arrives.
PriceNow == prices[LatestPriceVersion(now)].rate

\* The pinned version, loaded by its id.
GetPriceVersion == prices[req.price].rate

\* The terminal usage is normalised once and priced; the upstream's cost is
\* priced from the same buckets, here with the same rate.
Decide ==
    /\ req.pc = "held"
    /\ \E t \in Truths, inc \in Inclusions :
         LET b == BillableBuckets(Reported(t, inc), inc) IN
         req' = [req EXCEPT !.pc = "settled", !.truth = t,
                            !.charge = Quote(GetPriceVersion, b, "sale_credit"),
                            !.cost = Quote(GetPriceVersion, b, "upstream_cost")]
    /\ UNCHANGED <<prices, now, op, sent, sends>>

\* The next request.
Done ==
    /\ req.pc = "settled"
    /\ req' = NoReq
    /\ UNCHANGED <<prices, now, op, sent, sends>>
-----------------------------------------------------------------------------
Init ==
    /\ prices = << >>
    /\ now = 1
    /\ op = [o \in Ops |-> NoOp]
    /\ sent = {}
    /\ sends = 0
    /\ req = NoReq

Next ==
    \/ \E o \in Ops : Create(o) \/ CheckMax(o) \/ InsertPriceVersionTx(o) \/ Answered(o)
    \/ Tick
    \/ pinCreditPrice \/ Decide \/ Done

Spec == Init /\ [][Next]_pricevars
-----------------------------------------------------------------------------
\* PriceVersionExistsError: a create sent again with the instants it carries is
\* recognised as a replay whatever their sub-microsecond digits, and only the
\* content that is stored is.
ReplayKnown ==
    \A o \in Ops : op[o].pc \in {"duplicate", "conflict"} =>
        LET row == prices[op[o].body.rev]
            body == op[o].body
        IN /\ (body \in sent /\ body.from # 0) => op[o].pc = "duplicate"
           /\ op[o].pc = "duplicate" => row.rate = body.rate /\ row.from = Stored(op[o].from)

\* The design of the price surface: the same create request sent again is
\* answered as a duplicate.
ReplayIsDuplicate ==
    \A o \in Ops : op[o].pc = "conflict" => op[o].body \notin sent

\* ReserveAmount and Decide: a request whose tokens stay within the bounds it
\* was admitted with is never charged more than its hold, at the rate that was
\* in force when it was admitted and not the one that is in force now, for
\* every way a provider counts cached and reasoning tokens.
HoldCovers ==
    req.pc = "settled" =>
        LET t == req.truth
            exact == req.rate * (t.fresh + t.read + t.write + t.text + t.think)
        IN /\ t.fresh <= req.in /\ t.read <= req.in /\ t.write <= req.in /\ t.text + t.think <= req.out
                => req.charge # Failed /\ req.charge <= req.hold
           /\ req.charge # Failed => req.charge * Mtok >= exact /\ req.charge * Mtok < exact + 4 * Mtok
           /\ req.charge # Failed => req.cost # Failed /\ req.cost <= req.charge
=============================================================================
