------------------------- MODULE MCEmissionsRequests -------------------------
(* Two requests, two overlapping runs of the job, two auditors with two forms. *)
EXTENDS EmissionsRequests, TLC

Known(key, year, needs) == [key |-> key, year |-> year, needs |-> needs, kg |-> 1, mode |-> "ground"]
MCFactor == {Known(<<"carrier", "ground">>, 1, {}), Known(<<"flight", "economy">>, 2, {"passengers", "distance"}),
             Known(Usa, 1, {"amount"}), Known(NaturalGas, 2, {"amount"})}
MCCarrierWallet == [c \in {"acme", "ups"} |-> IF c = "acme" THEN "acmeWallet" ELSE None]

Truck == [Blank EXCEPT !.id = 1, !.type = "shipment", !.carrier = "acme", !.mode = "ground",
                       !.input = {"weight"}, !.quantity = 2, !.from = 1, !.thru = 2]
Parcel == [Blank EXCEPT !.id = 2, !.type = "shipment", !.carrier = "ups", !.mode = "ground", !.quantity = 1]
Unmoved == [Truck EXCEPT !.id = 3, !.mode = None]
Flight == [Blank EXCEPT !.id = 4, !.type = "flight", !.carrier = "acme", !.key = <<"flight", "economy">>, !.quantity = 1, !.thru = 1]
Power == [Blank EXCEPT !.id = 5, !.type = "electricity", !.key = <<"eGRID", "STATE: WY">>,
                       !.input = {"utility", "amount"}, !.quantity = 1, !.from = 1]
Gas == [Blank EXCEPT !.id = 6, !.type = "natural_gas", !.input = {"amount"}, !.quantity = 1]
Vent == [Blank EXCEPT !.id = 7, !.type = "industry", !.key = <<"venting">>, !.quantity = 1]
Other == [Blank EXCEPT !.id = 8]

MCSubmission ==
  {[activities |-> {Truck, Unmoved, Parcel, [Truck EXCEPT !.id = 9, !.from = None, !.thru = None]},
    from |-> None, api |-> FALSE],
   [activities |-> {Power, Flight, [Gas EXCEPT !.input = {}]}, from |-> "poster", api |-> TRUE]}
MCPosted == {Vent}
=============================================================================
