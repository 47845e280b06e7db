----------------------------- MODULE Extraction -----------------------------
(***************************************************************************)
(* What is read out of a document's fields: by the upload, which shows VIN *)
(* and category before the user confirms (extract_api.go), by the sync of  *)
(* plate and VIN (license_plate_sync.go) and by the cost report            *)
(* (tco_service.go).  All read the extractor's answer, which is attested   *)
(* verbatim but for an amount the user typed (upload-document-modal.ts),   *)
(* each with a search of its own.                                          *)
(*                                                                         *)
(* The answer is a tree of objects, given as a function from slots, the    *)
(* path to an object and the name of a field of it, to texts.              *)
(***************************************************************************)
EXTENDS Integers, Sequences, FiniteSets

CONSTANTS
  MaxDepth,      \* objects searched below the first, four in the code
  WrapperKeys,   \* keys of objects that are searched, in this order
  Answers,       \* what the extractor may answer with
  Categories,    \* types of documents
  Typed          \* the texts a user may type for an amount; "" is none

VARIABLES
  upload,    \* the page: where it is, the answer, the VIN and the category shown, the amount typed
  attested,  \* the event: its category and its fields
  row,       \* VIN and plate in the vehicle's row
  line       \* the document in the cost report

extVars == <<upload, attested, row, line>>

NoFields == <<>>
Paths    == UNION { [1..n -> { WrapperKeys[i] : i \in DOMAIN WrapperKeys }] : n \in 0..(MaxDepth + 1) }

-----------------------------------------------------------------------------
(* The first of a list that passes, "" if none does. *)
First(list, Passes(_)) ==
  LET hits == SelectSeq(list, Passes) IN IF hits = <<>> THEN "" ELSE hits[1]

At(fields, path, name) ==
  IF <<path, name>> \in DOMAIN fields THEN fields[path, name] ELSE ""

Each(list, Of(_)) == [i \in DOMAIN list |-> Of(list[i])]

(* Depth first: the object's own fields, in the order of the names, then   *)
(* the objects below it, in the order of the keys.                         *)
Search(fields, names, Accepts(_)) ==
  LET found[path \in Paths] ==
        IF Len(path) > MaxDepth THEN ""
        ELSE LET own   == First(Each(names, LAMBDA n : At(fields, path, n)), Accepts)
                 below == First(Each(WrapperKeys, LAMBDA k : found[Append(path, k)]),
                                LAMBDA v : v # "")
             IN  IF own # "" THEN own ELSE below
  IN  found[<<>>]

IsText(v)  == v # ""
NotBlank(v) == v \notin {"", " "}

findVINInMap(fields) == Search(fields, <<"vin", "VIN", "Vin">>, IsText)

findStringInMap(fields, path, key) ==
  First(<<At(fields, path, key[1]), At(fields, path, key[2])>>, IsText)

(* Only "fields" of the answer itself is looked into. *)
findCategory(fields) ==
  First(<<findStringInMap(fields, <<>>, <<"type", "TYPE">>),
          findStringInMap(fields, <<"fields">>, <<"type", "TYPE">>),
          At(fields, <<>>, "category")>>, IsText)

(* Mutant: wrapped fields are left alone. *)
TopLevelField(fields, names) == First(Each(names, LAMBDA n : At(fields, <<>>, n)), NotBlank)

findFieldInDoc(fields, names) == Search(fields, names, NotBlank)

-----------------------------------------------------------------------------
(* numericField: a number, or a text with one in it, signs and separators  *)
(* dropped.                                                                *)
numericField(v) ==
  CASE v = "5" -> {5} [] v = "$7" -> {7} [] v \in {"9", "$9"} -> {9} [] OTHER -> {}

costFieldsByType(category) ==
  CASE category = "invoice"   -> <<"totalCost">>
    [] category = "insurance" -> <<"premium">>
    [] category = "expense"   -> <<"amount">>
    [] OTHER -> <<>>

costFieldsFallback == <<"totalCost", "amount", "amountDue", "premium">>

IsNumeric(v) == numericField(v) # {}

(* Mutant: a type's own field or nothing. *)
OwnFieldOnly(category, fields) ==
  numericField(First(Each(costFieldsByType(category), LAMBDA n : At(fields, <<>>, n)), IsNumeric))

(* A type's own field first, then those of the others; never a balance,    *)
(* and nothing that is wrapped.                                            *)
extractAmount(category, fields) ==
  numericField(First(Each(costFieldsByType(category) \o costFieldsFallback,
                          LAMBDA n : At(fields, <<>>, n)), IsNumeric))

currencyOf(fields) ==
  LET c == At(fields, <<>>, "currency") IN IF c = "" THEN "USD" ELSE c

descriptionLabelFields == <<"summary", "description", "providerName", "name">>

descriptionFor(category, fields) ==
  LET label == First(Each(descriptionLabelFields, LAMBDA n : At(fields, <<>>, n)), NotBlank)
  IN  IF label # "" THEN label ELSE category

CostEligible(category) == category \notin {"unknown", "title"}

-----------------------------------------------------------------------------
Idle == [at |-> "pick", fields |-> NoFields, vin |-> "", category |-> "unknown", typed |-> ""]

(* A file of another kind is refused, a failure of the extractor is 502;   *)
(* both leave the page where it was, to try again.                         *)
ExtractDocument ==
  /\ upload.at = "pick"
  /\ \E answer \in Answers :
       LET category == findCategory(answer)
       IN  upload' = [upload EXCEPT !.at = "review", !.fields = answer,
                        !.vin = findVINInMap(answer),
                        !.category = IF category # "" THEN category ELSE @]
  /\ UNCHANGED <<attested, row, line>>

(* The user may choose another category and type an amount. *)
Review ==
  /\ upload.at = "review"
  /\ \E category \in Categories \union {upload.category}, typed \in Typed :
       upload' = [upload EXCEPT !.at = "confirmed", !.category = category, !.typed = typed]
  /\ UNCHANGED <<attested, row, line>>

(* JavaScript's Number, of a text that is not empty: NaN, here {}, if    *)
(* there are currency signs or separators in it.                           *)
Number(v) == IF v = "9" THEN {9} ELSE {}

WithAmount ==
  [slot \in DOMAIN upload.fields \union {<<<<>>, "amount">>, <<<<>>, "currency">>} |->
    CASE slot = <<<<>>, "amount">> -> upload.typed
      [] slot = <<<<>>, "currency">> -> "USD"
      [] OTHER -> upload.fields[slot]]

(* Mutant: a text that is no number is attested as the amount. *)
ParsedAsTyped ==
  IF CostEligible(upload.category) /\ upload.typed # "" THEN WithAmount ELSE upload.fields

(* buildParsedData: the number typed, in dollars, over what was extracted; *)
(* a text that is no number is left out, and the user is not told.         *)
ParsedData ==
  IF CostEligible(upload.category) /\ upload.typed # "" /\ Number(upload.typed) # {}
  THEN WithAmount ELSE upload.fields

AttestDocument ==
  /\ upload.at = "confirmed"
  /\ upload' = [upload EXCEPT !.at = "done"]
  /\ attested' = {[category |-> upload.category, fields |-> ParsedData]}
  /\ UNCHANGED <<row, line>>

SyncVehicle ==
  /\ \E e \in attested :
       /\ e.category = "registration"
       /\ row' = {[vin   |-> findFieldInDoc(e.fields, <<"vin">>),
                   plate |-> findFieldInDoc(e.fields, <<"license_plate", "plateNumber">>)]}
  /\ UNCHANGED <<upload, attested, line>>

(* Without an amount the document is listed as one that misses it. *)
VehicleSummary ==
  /\ \E e \in attested :
       /\ CostEligible(e.category)
       /\ line' = {[amount   |-> extractAmount(e.category, e.fields),
                    currency |-> currencyOf(e.fields),
                    label    |-> descriptionFor(e.category, e.fields)]}
  /\ UNCHANGED <<upload, attested, row>>

Init == upload = Idle /\ attested = {} /\ row = {} /\ line = {}

Next == ExtractDocument \/ Review \/ AttestDocument \/ SyncVehicle \/ VehicleSummary

Spec == Init /\ [][Next]_extVars

-----------------------------------------------------------------------------
TypeOK ==
  /\ upload.at \in {"pick", "review", "confirmed", "done"}
  /\ upload.fields \in Answers \union {NoFields}
  /\ Cardinality(attested) <= 1 /\ Cardinality(row) <= 1 /\ Cardinality(line) <= 1

(* The VIN in the vehicle's row is the one the user saw before confirming, *)
(* unless the answer spells the field's name otherwise or leaves one blank *)
(* (findFieldInDoc "mirrors" findVINInMap).                                *)
VINAsShown ==
  \A r \in row :
    (\A slot \in DOMAIN upload.fields :
       slot[2] \notin {"VIN", "Vin"} /\ (slot[2] = "vin" => upload.fields[slot] # " "))
      => r.vin = upload.vin

(* A number that the user typed is the cost, in dollars, unless the        *)
(* document has a figure in a field that goes before: its receipt does not *)
(* miss an amount.  A text that is no number to JavaScript, "$9", is       *)
(* dropped, and the cost is what was extracted, or missing (extractAmount  *)
(* would have read it).                                                    *)
TypedCounts ==
  \A l \in line :
    IF Number(upload.typed) # {}
    THEN /\ l.amount # {} /\ l.currency = "USD"
         /\ \/ l.amount = Number(upload.typed)
            \/ \E name \in {"totalCost", "amountDue", "premium"} :
                 l.amount = numericField(At(upload.fields, <<>>, name))
    ELSE /\ l.amount = extractAmount(upload.category, upload.fields)
         /\ l.currency = currencyOf(upload.fields)

(* A balance is what is owed, not what was spent: it is never the cost. *)
BalanceIsNoCost ==
  \A l \in line : Number(upload.typed) = {} /\ l.amount # {} =>
    \E slot \in DOMAIN upload.fields :
      slot[2] # "balance" /\ numericField(upload.fields[slot]) = l.amount

ReadAlike == VINAsShown /\ TypedCounts /\ BalanceIsNoCost
=============================================================================
