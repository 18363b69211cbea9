---------------------------- MODULE RefundAmounts ----------------------------
(***************************************************************************)
(* What a refund of Shopify becomes at Decathlon: parseRefundWebhook       *)
(* (packages/sync/src/adapters/shopify.adapter.ts) reads the amounts,      *)
(* buildRefunds and buildCancellationRefunds (order-lifecycle.ts) place    *)
(* them on the lines Decathlon still holds money for.  RefundSync models   *)
(* when this happens; here is how much.                                    *)
(*                                                                         *)
(* Amounts are in twelfths of a cent, for the shares that are no whole     *)
(* cents.  The lines of an order are 1..LineCount; some may be of one      *)
(* variant.                                                                *)
(***************************************************************************)
EXTENDS Integers, Sequences, SequencesExt, FiniteSetsExt

CONSTANTS
    LineCount,    \* how many lines the order has
    WebhookLength, \* how many refund_line_items a webhook has at most
    OrderLines,   \* the quantities of the lines in the app's database
    DecathlonLines, \* what Decathlon says of a line, or NoLine
    NoLine,
    WebhookLines, \* refund_line_items of a webhook
    Shippings,    \* its shipping refund
    MoneyBacks,   \* the total of its transactions, or Untold
    Untold

Cent == 12
Round2(n) == ((n + Cent \div 2) \div Cent) * Cent
Lines == 1..LineCount

(* The sum over all lines of what f says of each.                          *)
OverLines(f) == FoldLeft(LAMBDA n, l : n + f[l], 0, [l \in Lines |-> l])

(* The elements of a list that are in a set, in the list's order: filter.  *)
Among(list, S) ==
    FoldLeft(LAMBDA found, x : IF x \in S THEN Append(found, x) ELSE found, <<>>, list)

(* What is read from the three sources: counts, and amounts of money.  Of  *)
(* a line of Decathlon's no more was ever refunded than was paid.          *)
Counted == [line : Int, variant : STRING, quantity : Nat, amount : Nat]

Booked == [price : Int, shippingPrice : Int, quantity : Int, state : STRING,
           canRefund : BOOLEAN, refund : [amount : Int, shipping : Int, quantity : Int]]

ASSUME AmountsAssumption ==
    /\ LineCount \in Nat /\ WebhookLength \in Nat
    /\ OrderLines \subseteq Int
    /\ WebhookLines \subseteq Counted
    /\ Shippings \subseteq Nat
    /\ \A told \in MoneyBacks : told = Untold \/ told \in Nat
    /\ \A line \in DecathlonLines :
          /\ line \in Booked
          /\ line.refund.amount <= line.price
          /\ line.refund.shipping <= line.shippingPrice

VARIABLES
    ordered,   \* quantity and variant of each line
    owed,      \* what Decathlon says of each line
    webhook    \* the webhook: lines, shipping, moneyBack

amountVars == <<ordered, owed, webhook>>
NoWebhook == [lines |-> <<>>, shipping |-> 0, moneyBack |-> Untold]

AmountsInit ==
    /\ ordered \in [Lines -> [quantity : OrderLines, variant : {"v", "w"}]]
    /\ LineCount > 0 => ordered[1].variant = "v"
    /\ owed \in [Lines -> DecathlonLines \cup {NoLine}]
    /\ webhook \in [lines : SeqOf(WebhookLines, WebhookLength), shipping : Shippings, moneyBack : MoneyBacks]

-----------------------------------------------------------------------------
(* parseRefundWebhook                                                      *)

SumOf(refs) == FoldLeft(LAMBDA n, ref : n + ref.amount, 0, refs)

Kept(w) == Among(w.lines, {ref \in Range(w.lines) : ref.quantity > 0 \/ ref.amount > 0})

Itemized(w) == SumOf(Kept(w)) + w.shipping

(* The money the merchant gave back wins over the items refunded.          *)
Payload(w) ==
    LET plain == [lines |-> Kept(w), shipping |-> w.shipping, unallocated |-> 0]
        Scaled(n) == (n * w.moneyBack) \div Itemized(w)
    IN CASE w.moneyBack = Untold -> plain
         [] w.moneyBack # Untold /\ w.moneyBack < Itemized(w) - Cent ->
               [lines |-> [i \in DOMAIN Kept(w) |->
                              [Kept(w)[i] EXCEPT !.amount = Scaled(Kept(w)[i].amount)]],
                shipping |-> Scaled(w.shipping), unallocated |-> 0]
         [] w.moneyBack # Untold /\ w.moneyBack > Itemized(w) + Cent ->
               [plain EXCEPT !.unallocated = w.moneyBack - Itemized(w)]
         [] OTHER -> plain

-----------------------------------------------------------------------------
(* resolveLines                                                            *)

(* The line's own id, else the variant (the SKU works alike).              *)
Candidates(ref) ==
    IF ref.line \in Lines
    THEN <<ref.line>>
    ELSE Among([l \in Lines |-> l], {l \in Lines : ordered[l].variant = ref.variant})

Take(a, l) ==
    LET take == Min({a.left, a.capacity[l]})
    IN IF take <= 0 THEN a
       ELSE [a EXCEPT !.left = @ - take, !.capacity[l] = @ - take,
                      !.pieces = Append(@, [line |-> l, quantity |-> take, ref |-> a.ref])]

Place(acc, ref) ==
    LET done == FoldLeft(Take, [ref |-> ref, left |-> ref.quantity, capacity |-> acc.capacity,
                                pieces |-> acc.pieces], Candidates(ref))
    IN [capacity |-> done.capacity, pieces |-> done.pieces,
        unresolved |-> acc.unresolved + done.left]

ResolveLines(refs) ==
    FoldLeft(Place, [capacity |-> [l \in Lines |-> ordered[l].quantity],
                     pieces |-> <<>>, unresolved |-> 0], refs)

-----------------------------------------------------------------------------
(* buildRefunds                                                            *)

AtDecathlon == {l \in Lines : owed[l] # NoLine}

(* remainingOf; what a line that is not on the order holds is nothing.     *)
Remaining(l) ==
    IF l \notin AtDecathlon THEN [amount |-> 0, shipping |-> 0, quantity |-> 0]
    ELSE [amount |-> Round2(owed[l].price - owed[l].refund.amount),
          shipping |-> Round2(owed[l].shippingPrice - owed[l].refund.shipping),
          quantity |-> owed[l].quantity - owed[l].refund.quantity]

(* acc: the lines to be refunded, in the order they came up (keys).        *)
NoEntries == [keys |-> <<>>,
              of |-> [l \in Lines |-> [quantity |-> 0, amount |-> 0, shipping |-> 0]]]

Entry(acc, l) == IF Contains(acc.keys, l) THEN acc ELSE [acc EXCEPT !.keys = Append(@, l)]

(* What is added to a line that is refunded.                               *)
AddTo(acc, l, quantity, amount, shipping) ==
    LET e == acc.of[l]
    IN [Entry(acc, l) EXCEPT !.of[l] = [quantity |-> e.quantity + quantity,
                                        amount |-> e.amount + amount,
                                        shipping |-> e.shipping + shipping]]

(* Faulty variant: each piece of a split line carries the whole amount.    *)
AddWholePiece(acc, piece) == AddTo(acc, piece.line, piece.quantity, piece.ref.amount, 0)

Share(piece) ==
    IF piece.ref.quantity > 0
    THEN (piece.ref.amount * piece.quantity) \div piece.ref.quantity
    ELSE piece.ref.amount

AddPiece(acc, piece) == AddTo(acc, piece.line, piece.quantity, Share(piece), 0)

(* Money without items: a price gesture on the lines that have money left. *)
AddGesture(spread, l) ==
    LET take == Min({spread.left, Remaining(l).amount - spread.acc.of[l].amount})
    IN IF spread.left <= 0 \/ take <= 0 THEN spread
       ELSE [acc |-> AddTo(spread.acc, l, 0, take, 0), left |-> Round2(spread.left - take)]

(* Faulty variant: what a line holds is not looked at.                     *)
AddShippingUncapped(spread, l) ==
    IF spread.left <= 0 THEN spread
    ELSE [acc |-> AddTo(spread.acc, l, 0, 0, spread.left), left |-> 0]

AddShipping(spread, l) ==
    LET take == Min({spread.left, Remaining(l).shipping})
    IN IF spread.left <= 0 \/ take <= 0 THEN spread
       ELSE [acc |-> AddTo(spread.acc, l, 0, 0, take), left |-> Round2(spread.left - take)]

Present == Among([l \in Lines |-> l], AtDecathlon)

(* Lines to be refunded first, then the others. *)
ShippingOrder(acc) == acc.keys \o Among(Present, Lines \ Range(acc.keys))

Capped(l, amount) == Min({amount, Remaining(l).amount})

Row(acc, l) ==
    [quantity |-> Min({acc.of[l].quantity, Max({Remaining(l).quantity, 0})}),
     amount |-> Capped(l, Round2(acc.of[l].amount)),
     shipping |-> Round2(acc.of[l].shipping)]

Negligible(row) == row.amount + row.shipping <= Cent

(* The refund of each line that has one, and the money reported instead:   *)
(* what was left over, and what the cap took off a line.                   *)
Spread(payload) ==
    LET pieces == FoldLeft(AddPiece, NoEntries, ResolveLines(payload.lines).pieces)
        gesture == FoldLeft(AddGesture, [acc |-> pieces, left |-> Round2(payload.unallocated)], Present)
        shipping == FoldLeft(AddShipping, [acc |-> gesture.acc, left |-> Round2(payload.shipping)],
                             ShippingOrder(gesture.acc))
        acc == shipping.acc
        refunded == {l \in AtDecathlon \cap Range(acc.keys) : ~Negligible(Row(acc, l))}
        Over(l) == Round2(acc.of[l].amount) - Capped(l, Round2(acc.of[l].amount))
    IN [refunds |-> [l \in refunded |-> Row(acc, l)],
        told |-> gesture.left + shipping.left
                   + OverLines([l \in Lines |-> IF l \in Range(acc.keys) THEN Over(l) ELSE 0])]

(* "All or nothing": a line that cannot be placed is an error.             *)
BuildRefunds(payload) ==
    IF ResolveLines(payload.lines).unresolved > 0
    THEN [refunds |-> [l \in {} |-> 0], told |-> 0]
    ELSE Spread(payload)

(* The order was cancelled: all that is left on lines not yet shipped.     *)
BuildCancellationRefunds ==
    LET Whole(l) == [Remaining(l) EXCEPT !.quantity = Max({Remaining(l).quantity, 0})]
    IN [l \in {k \in AtDecathlon : owed[k].state = "SHIPPING" /\ owed[k].canRefund
                                     /\ ~Negligible(Whole(k))} |-> Whole(l)]

-----------------------------------------------------------------------------
(* Properties                                                              *)

Built == BuildRefunds(Payload(webhook))
Placed == ResolveLines(Payload(webhook).lines).unresolved = 0

Within(l, row) ==
    /\ row.amount <= Remaining(l).amount
    /\ row.shipping <= Remaining(l).shipping
    /\ row.quantity <= Max({Remaining(l).quantity, 0})

(* No refund asks for more than Decathlon still holds for its line, which  *)
(* Decathlon would refuse; nor does a cancellation, nor does it touch a    *)
(* line that is on its way.                                                *)
NeverBeyondRemaining ==
    /\ \A l \in DOMAIN Built.refunds : Within(l, Built.refunds[l])
    /\ \A l \in DOMAIN BuildCancellationRefunds :
          Within(l, BuildCancellationRefunds[l]) /\ owed[l].state = "SHIPPING"

(* "Whatever can't be placed is returned as unresolved"                    *)
(* (order-lifecycle.ts:40-41), except a line of quantity 0 with an amount: *)
(* parseRefundWebhook keeps it, resolveLines has no piece of it to place   *)
(* and none left over, so its amount is neither sent nor reported.         *)
Vanished == LET refs == Payload(webhook).lines
            IN SumOf(Among(refs, {ref \in Range(refs) : ref.quantity = 0}))

(* What the roundings and the refunds not worth a cent can add up to: two  *)
(* cents, two for each line, and a twelfth for each division.              *)
Tolerance == 2 * (1 + LineCount) * Cent + (1 + WebhookLength) * (1 + LineCount)

MoneySent(refunds) ==
    OverLines([l \in Lines |-> IF l \in DOMAIN refunds
                               THEN refunds[l].amount + refunds[l].shipping ELSE 0])

(* "All or nothing: a half-applied refund is harder to reason about than a *)
(* clear failure" (order-lifecycle.ts:598): when part of a line cannot be  *)
(* placed nothing is sent; else the money is accounted for.  What the      *)
(* merchant gave back, or the items and shipping refunded when the webhook *)
(* tells no total, is sent to Decathlon once or reported as a problem, but *)
(* for the amounts of quantity-0 lines, which the code loses (Vanished).   *)
RefundIsAccounted ==
    LET asked == IF webhook.moneyBack = Untold THEN Itemized(webhook) ELSE webhook.moneyBack
        difference == asked - Vanished - MoneySent(Built.refunds) - Built.told
    IN IF Placed THEN difference \in -Tolerance..Tolerance ELSE DOMAIN Built.refunds = {}
=============================================================================
