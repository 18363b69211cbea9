--------------------------- MODULE ProductPayload ---------------------------
(***************************************************************************)
(* Whether a Shopify product can be sent to Decathlon, and the P41 row it  *)
(* becomes: prepareProductImport (packages/sync/src/engine.ts), which the  *)
(* readiness check shares, over buildProductImportPayload                  *)
(* (packages/sync/src/adapters/decathlon.adapter.ts) and the rules of      *)
(* Decathlon's categories and attributes (packages/decathlon/src).         *)
(*                                                                         *)
(* A product has one variant: the builder goes through the variants one by *)
(* one and a refused one refuses the product.  How a text matches an entry *)
(* of a list is given: the relations Exactly, Loosely and InChart.         *)
(***************************************************************************)
EXTENDS Integers, Sequences, FiniteSetsExt

CONSTANTS
    Absent,          \* no value: undefined, null or an empty string
    Attributes,      \* PM11: definitions [code, hierarchy, required, list, many, variant]
    SizeCodes,       \* the codes that contain "size", in any case
    Parent,          \* H11: the parent of each category, Absent for a root
    Exactly,         \* findValueListEntry: <<list, text>> -> code
    Loosely,         \* findValueListEntryFuzzy
    InChart,         \* matchSizeInChart: <<chart, text>> -> code
    ProductInputs,   \* products of Shopify
    SettingsInputs   \* what the merchant has set

Categories == DOMAIN Parent

MaxDepth == 32      \* ancestorCodesFor gives up after as many steps

(* The definitions are a list; no branch of the tree is deeper than that   *)
(* loop goes, and none is a cycle (H11's has a handful of levels).         *)
ASSUME CatalogAssumption ==
    /\ Attributes \in Seq([code : STRING, hierarchy : STRING, required : BOOLEAN,
                           list : STRING \cup {Absent}, many : BOOLEAN, variant : BOOLEAN])
    /\ "SIZE" \in SizeCodes /\ "color" \notin SizeCodes
    /\ \E height \in [Categories -> 0..MaxDepth] : \A c \in Categories :
          Parent[c] \in Categories => height[Parent[c]] < height[c]

VARIABLES
    product,    \* readable, status, chosen, category, attributes, title, sku, brand,
                \* image, ean, color, size
    settings    \* rule, mapped, fallback, gender, chart, email

payloadVars == <<product, settings>>

PayloadInit == product \in ProductInputs /\ settings \in SettingsInputs

Or(x, y) == IF x # Absent THEN x ELSE y
Find(f, key) == IF key \in DOMAIN f THEN f[key] ELSE Absent

-----------------------------------------------------------------------------
(* Categories and the attributes they require                              *)

(* Faulty variant: attributes are not inherited. *)
NoAncestors(c) == {}

(* The loop gives up after MaxDepth steps, or where the tree has no parent.*)
Up(c) == IF Find(Parent, c) \in Categories THEN Parent[c] ELSE c

AncestorCodes(c) ==
    LET up[i \in 0..MaxDepth] == IF i = 0 THEN c ELSE Up(up[i - 1])
    IN {up[i] : i \in 0..MaxDepth} \ {c}

(* A category that is not in the tree, or is a group of others.            *)
CategoryError(c) == c \notin Categories \/ \E k \in Categories : Parent[k] = c

Defines(i, code) == Attributes[i].code = code
Known == {Attributes[i].code : i \in DOMAIN Attributes}
First(code, among) == Attributes[Min({i \in among : Defines(i, code)})]

(* The code may be attached to several categories: one column either way.  *)
RequiredAttributes(c) ==
    LET codes == {"", c} \cup AncestorCodes(c)
        applicable == {i \in DOMAIN Attributes :
            Attributes[i].required /\ Attributes[i].hierarchy \in codes}
    IN {First(Attributes[i].code, applicable) : i \in applicable}

-----------------------------------------------------------------------------
(* buildProductImportPayload                                               *)

Mapped(code, text) == Find(settings.mapped, <<code, text>>)
Matched(list, text) == Or(Find(Exactly, <<list, text>>), Find(Loosely, <<list, text>>))

(* resolveAttributeValue: the merchant's mapping before any match; of an   *)
(* attribute that takes several values of its list (many) as well.         *)
Resolve(attr, text) ==
    IF attr.list = Absent THEN text
    ELSE Or(Mapped(attr.code, text), Matched(attr.list, text))

(* The metafield, resolved by the first definition of its code there is.   *)
Override(code) ==
    IF code \in DOMAIN product.attributes /\ code \in Known
    THEN Resolve(First(code, DOMAIN Attributes), product.attributes[code])
    ELSE Absent

(* Faulty variant: the merchant's mapping comes after the match.           *)
BrandGuessed(attr) ==
    IF product.brand = Absent THEN Absent
    ELSE Or(Matched(attr.list, product.brand),
            Or(Mapped("brandName", product.brand), Matched(attr.list, settings.fallback)))

Brand(attr) ==
    IF product.brand = Absent THEN Absent
    ELSE Or(Mapped("brandName", product.brand),
            Or(Matched(attr.list, product.brand), Matched(attr.list, settings.fallback)))

(* Colour and sizes are read from their own option only. *)
OptionTexts(attr) ==
    CASE attr.code = "color" -> <<product.color>>
      [] attr.code \in SizeCodes -> <<product.size>>
      [] OTHER -> <<product.color, product.size>>

FromOptions(attr) ==
    LET texts == OptionTexts(attr)
        hits == {i \in DOMAIN texts : texts[i] # Absent /\ Resolve(attr, texts[i]) # Absent}
    IN IF attr.variant /\ attr.list # Absent /\ ~attr.many /\ hits # {}
       THEN Resolve(attr, texts[Min(hits)]) ELSE Absent

Derived(attr, category) ==
    CASE attr.code = "category" -> category
      [] attr.code = "ProductIdentifier" -> product.sku
      [] attr.code = "main_image" -> product.image
      [] attr.code = "ean_codes" -> IF product.ean = "valid" THEN product.ean ELSE Absent
      [] attr.code = "brandName" -> Brand(attr)
      [] attr.code = "Gender_apparel" -> settings.gender
      [] attr.code = "email" -> settings.email
      [] OTHER -> FromOptions(attr)

(* Titles that every category has are filled in first, then overridden.    *)
Title(code) ==
    IF code = "title" /\ \E i \in DOMAIN Attributes : Defines(i, code) /\ Attributes[i].hierarchy = ""
    THEN product.title ELSE Absent

Supplied(code) == Or(Override(code), Title(code))

(* The column after the loop over the required attributes.                 *)
Filled(code, category) ==
    LET of == {r \in RequiredAttributes(category) : r.code = code}
    IN Or(Supplied(code),
          IF of = {} THEN Absent ELSE Derived(CHOOSE r \in of : TRUE, category))

(* The size of the option: the merchant's value, the chart's, or as it is. *)
Size == Or(Mapped("SIZE", product.size),
           IF settings.chart = Absent THEN product.size
           ELSE Find(InChart, <<settings.chart, product.size>>))

Missing(category) ==
    {code \in DOMAIN product.attributes : Override(code) = Absent}
      \cup {a.code : a \in {r \in RequiredAttributes(category) :
                               Or(Supplied(r.code), Derived(r, category)) = Absent}}
      \cup (IF product.size # Absent /\ Filled("SIZE", category) = Absent /\ Size = Absent
            THEN {"SIZE"} ELSE {})

(* One column per code; a size has one whether or not PM11 lists SIZE.     *)
ImportRow(category) ==
    [code \in Known \cup {"SIZE"} |->
        IF code = "SIZE" /\ product.size # Absent
        THEN Or(Filled(code, category), Size) ELSE Filled(code, category)]

-----------------------------------------------------------------------------
(* prepareProductImport                                                    *)

(* resolveCategoryCode: the metafield, else the rule of the product type.  *)
CategoryCode == Or(product.category, settings.rule)

(* normalizeShopifyProduct refuses a product that is gone, whose metafield *)
(* is no JSON object, or that has a variant without an SKU.                *)
Normalized == product.readable /\ product.sku # Absent

(* The exits in their order; a product has no variants left when the app   *)
(* was asked for others of its variants.                                   *)
Prepared ==
    IF ~Normalized THEN "invalid"
    ELSE IF product.status # "ACTIVE" THEN "inactive"
    ELSE IF CategoryCode = Absent THEN "invalid"
    ELSE IF ~product.chosen THEN "no-variants"
    ELSE IF CategoryError(CategoryCode) \/ Missing(CategoryCode) # {} THEN "invalid"
    ELSE "ready"

-----------------------------------------------------------------------------
(* Properties                                                              *)

(* A category and all it is under: the least set with its parents.         *)
Lineage(c) == {n \in Categories : \A S \in SUBSET Categories :
    c \in S /\ (\A k \in S : Parent[k] \in Categories => Parent[k] \in S) => n \in S}

(* Every attribute Decathlon requires, inherited ones included, is there.  *)
Complete(row, category) == \A i \in DOMAIN Attributes :
    Attributes[i].required /\ Attributes[i].hierarchy \in {""} \cup Lineage(category)
        => row[Attributes[i].code] # Absent

(* "a fuzzy match must not quietly override it" (decathlon.adapter.ts:32): *)
(* the metafield, then the mapping a merchant made, before any guess.      *)
Keeps(row, code, text) ==
    code \in Known \ DOMAIN product.attributes /\ Mapped(code, text) # Absent
        => row[code] \in {Mapped(code, text), Absent}

MerchantDecides(row) ==
    /\ \A code \in DOMAIN product.attributes : row[code] = Override(code)
    /\ Keeps(row, "brandName", product.brand)
    /\ Keeps(row, "color", product.color)
    /\ Keeps(row, "SIZE", product.size)

(* What the product or the settings say of these is sent as it is. *)
Copied == {"title", "category", "ProductIdentifier", "main_image", "ean_codes",
           "Gender_apparel", "email"}

(* A list value is one of the list that applies to the category, unless    *)
(* the merchant mapped it, or the metafield's was resolved by a definition *)
(* of the attribute on another branch; a size that has no list of its own  *)
(* is one of the chart.                                                    *)
Listed(attr, value) ==
    \/ \E f \in {Exactly, Loosely} : \E key \in DOMAIN f : key[1] = attr.list /\ value = f[key]
    \/ \E key \in DOMAIN settings.mapped : key[1] = attr.code /\ value = settings.mapped[key]

KnownValues(row, category) ==
    /\ \A attr \in RequiredAttributes(category) :
           /\ attr.list # Absent
           /\ attr.code \notin Copied \ DOMAIN product.attributes
           => Listed(attr, row[attr.code]) \/ First(attr.code, DOMAIN Attributes) # attr
    /\ /\ settings.chart # Absent /\ product.size # Absent
       /\ "SIZE" \notin DOMAIN product.attributes
       /\ \A attr \in RequiredAttributes(category) : attr.code = "SIZE" => attr.list = Absent
       => row["SIZE"] \in {Mapped("SIZE", product.size), Find(InChart, <<settings.chart, product.size>>)}

(* What is sent can be accepted and says what the merchant said: an import *)
(* that is not refused has every attribute of its category, with values    *)
(* Decathlon knows or the merchant chose.                                  *)
ImportRowIsSound == Prepared = "ready" =>
    LET row == ImportRow(CategoryCode)
    IN Complete(row, CategoryCode) /\ MerchantDecides(row) /\ KnownValues(row, CategoryCode)
=============================================================================
