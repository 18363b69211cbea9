------------------------------ MODULE MCRequests ------------------------------
(* What the app sends to Decathlon and how: a write of HttpClient, the     *)
(* amounts of a refund, and the row of a product import.  A behaviour is   *)
(* about one of the three; the last two are functions of their inputs.     *)
EXTENDS HttpClient, RefundAmounts, ProductPayload, TLC

VARIABLE about

Eur(n) == n * 100 * Cent

MCDecathlonLines ==
    LET line(price, shipping, quantity, amount, shipped, returned, state) ==
            [price |-> Eur(price), shippingPrice |-> Eur(shipping), quantity |-> quantity,
             state |-> state, canRefund |-> TRUE,
             refund |-> [amount |-> Eur(amount), shipping |-> Eur(shipped), quantity |-> returned]]
    IN {line(10, 3, 2, 0, 0, 0, "SHIPPING"), line(10, 3, 2, 4, 3, 1, "SHIPPED"),
        line(6, 0, 1, 6, 0, 1, "SHIPPING")}
MCWebhookLines ==
    [line : {1}, variant : {"v"}, quantity : {0, 1}, amount : {Eur(5)}]
      \cup [line : {0}, variant : {"v", "w"}, quantity : {1, 2}, amount : {Eur(10)}]
MCShippings == {0, Eur(3)}
MCMoneyBacks == {Untold, Eur(7), Eur(30)}

Global(code) ==
    [code |-> code, hierarchy |-> "", required |-> TRUE, list |-> Absent,
     many |-> FALSE, variant |-> FALSE]
MCAttributes == <<
    Global("title"), Global("category"), Global("ProductIdentifier"), Global("main_image"), Global("ean_codes"), Global("email"),
    [Global("brandName") EXCEPT !.list = "brands"],
    [Global("Gender_apparel") EXCEPT !.hierarchy = "apparel", !.list = "genders"],
    [Global("color") EXCEPT !.hierarchy = "tops", !.list = "colors", !.variant = TRUE],
    [Global("SPORT_ALL") EXCEPT !.hierarchy = "shoes", !.list = "sportsA", !.many = TRUE,
                                !.variant = TRUE],
    [Global("SPORT_ALL") EXCEPT !.hierarchy = "apparel", !.list = "sportsB"],
    [Global("SIZE") EXCEPT !.hierarchy = "shoes", !.list = "sizes", !.variant = TRUE],
    [Global("shoe_size") EXCEPT !.hierarchy = "shoes", !.list = "sizes", !.variant = TRUE],
    [Global("fit") EXCEPT !.hierarchy = "shoes", !.list = "fits", !.variant = TRUE],
    [Global("SIZE") EXCEPT !.required = FALSE, !.variant = TRUE]>>
MCSizeCodes == {"SIZE", "shoe_size"}
MCParent == [c \in {"apparel", "tops", "shirts", "shoes"} |->
    CASE c = "tops" -> "apparel" [] c = "shirts" -> "tops" [] OTHER -> Absent]
MCExactly == <<"brands", "Nike">> :> "b1" @@ <<"colors", "navy">> :> "c1"
             @@ <<"sportsA", "run">> :> "a1" @@ <<"sportsB", "run">> :> "r1"
             @@ <<"sportsB", "gym">> :> "r2" @@ <<"sportsA", "gym">> :> "a2"
             @@ <<"sizes", "M">> :> "m1" @@ <<"sizes", "L">> :> "l1"
             @@ <<"fits", "navy">> :> "f1" @@ <<"fits", "M">> :> "f2"
MCLoosely == <<"brands", "Nike Inc">> :> "b1"
MCInChart == <<"Z1", "M">> :> "Z1_M"

NoMap == [k \in {} |-> Absent]
Plain == [readable |-> TRUE, status |-> "ACTIVE", chosen |-> TRUE, category |-> Absent,
          attributes |-> "SPORT_ALL" :> "gym",
          title |-> "text", sku |-> "sku", brand |-> "Nike", image |-> "url", ean |-> "valid", color |-> "navy",
          size |-> "M"]
MCProducts ==
    {[Plain EXCEPT !.attributes = a, !.brand = b, !.color = c, !.size = s] :
        a \in {NoMap, "SPORT_ALL" :> "gym", "SPORT_ALL" :> "run",
               "SPORT_ALL" :> "run" @@ "SIZE" :> "one", "typo" :> "x"},
        b \in {Absent, "Nike", "Nike Inc", "Nobody"}, c \in {Absent, "navy", "teal"},
        s \in {Absent, "M", "Q"}}
      \cup {[Plain EXCEPT !.category = "shoes", !.attributes = a, !.color = c, !.size = s] :
        a \in {NoMap, "SPORT_ALL" :> "gym", "SPORT_ALL" :> "run" @@ "SIZE" :> "L"},
        c \in {Absent, "navy"}, s \in {Absent, "M", "L", "Q"}}
      \cup {[Plain EXCEPT !.category = "tops"], [Plain EXCEPT !.category = "gone"],
            [Plain EXCEPT !.status = "DRAFT"], [Plain EXCEPT !.sku = Absent],
            [Plain EXCEPT !.readable = FALSE], [Plain EXCEPT !.chosen = FALSE], [Plain EXCEPT !.ean = "bad"],
            [Plain EXCEPT !.image = Absent]}
Usual == [rule |-> "shirts", mapped |-> NoMap, fallback |-> Absent, gender |-> "g1",
          chart |-> Absent, email |-> "mail"]
MCSettings ==
    {[Usual EXCEPT !.mapped = m, !.fallback = f, !.chart = z] :
        m \in {NoMap, <<"brandName", "Nike">> :> "b9", <<"color", "navy">> :> "c9",
               <<"SIZE", "Q">> :> "s9" @@ <<"SPORT_ALL", "gym">> :> "r9"},
        f \in {Absent, "Nike"}, z \in {Absent, "Z1"}}
      \cup {[Usual EXCEPT !.rule = Absent], [Usual EXCEPT !.gender = Absent],
            [Usual EXCEPT !.email = Absent]}

-----------------------------------------------------------------------------
NoRefund ==
    /\ ordered = [l \in Lines |-> [quantity |-> 1, variant |-> "v"]]
    /\ owed = [l \in Lines |-> NoLine]
    /\ webhook = NoWebhook

NoProduct == product = [Plain EXCEPT !.status = "DRAFT"] /\ settings = Usual

RequestsInit ==
    /\ Init
    /\ \/ about = "request" /\ NoRefund /\ NoProduct
       \/ about = "refund" /\ AmountsInit /\ NoProduct
       \/ about = "product" /\ NoRefund /\ PayloadInit

RequestsNext == about = "request" /\ Next /\ UNCHANGED <<amountVars, payloadVars, about>>

RequestsSpec == RequestsInit /\ [][RequestsNext]_<<vars, amountVars, payloadVars, about>>

=============================================================================
