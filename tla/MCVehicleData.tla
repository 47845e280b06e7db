---------------------------- MODULE MCVehicleData ----------------------------
(***************************************************************************)
(* A small instance of every part of VehicleData, for one run of TLC.      *)
(***************************************************************************)
EXTENDS VehicleData

MCAmount == [i |-> {4}, j |-> {}]

Tariff(rate, gas, mpg, perMile, currency) ==
  [rate |-> rate, gas |-> gas, mpg |-> mpg, perMile |-> perMile, currency |-> currency]

MCTariffs == {Tariff({1}, {}, {}, {}, ""), Tariff({2}, {3}, {1}, {2}, "EUR"),
              Tariff({2}, {3}, {1}, {0}, "EUR")}

Asset(price, age, life, currency) ==
  [price |-> price, age |-> age, life |-> life, currency |-> currency]

MCAssets == {Asset({6}, {1}, {3}, ""), Asset({6}, {4}, {3}, "EUR")}

MCWrapperKeys == <<"data", "fields">>

(* The extractor's answers: up to two fields, on different levels. *)
UpToTwo(paths, names, texts) ==
  UNION { [slots -> texts] : slots \in { set \in SUBSET (paths \X names) : Cardinality(set) <= 2 } }

MCAnswers ==
  UpToTwo({<<>>, <<"data">>, <<"fields">>, <<"data", "fields">>, <<"data", "data", "data">>},
          {"vin", "VIN"}, {"A", "B", " "})
  \union UpToTwo({<<>>, <<"data">>}, {"totalCost", "amount", "balance", "currency"}, {"5", "$7", "n/a"})
  \union UpToTwo({<<>>, <<"fields">>}, {"type", "category"}, {"registration", "invoice"})
=============================================================================
