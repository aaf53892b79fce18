---------------------------- MODULE ActivityGroups ----------------------------
(***************************************************************************)
(* The supply-chain library: how an activity (a shipment, a flight, a use  *)
(* of energy) becomes emissions, and how processed activities are grouped  *)
(* into what one token is issued for.  Pure operators; the weights and     *)
(* distances an emissions factor is multiplied with are one number, and    *)
(* the answers of the outside world (maps, UPS, the utility table) are a   *)
(* field of the activity.  A date is its year.                             *)
(***************************************************************************)
EXTENDS Integers, FiniteSetsExt

CONSTANTS None,
          Factor,        \* the emissions_factor table: key, year, needs, kg, mode
          CarrierWallet, \* carrier -> the address of the wallet found under its name, or None
          Now

Input == {"mode", "passengers", "weight", "distance", "amount", "utility"}
ActivityType == {"shipment", "flight", "emissions_factor", "natural_gas", "electricity",
                 "industry", "other"}

\* found: the addresses, the delivered package or the utility were found; key: the levels
\* (or the uuid, or the transport mode) that name the factor; gwp: of an industrial gas.
Blank == [id |-> 0, type |-> "other", issued_from |-> None, from |-> None, thru |-> None,
          carrier |-> None, mode |-> None, found |-> TRUE, input |-> {}, key |-> None,
          uom |-> "volume", gwp |-> 1, quantity |-> 0]

\* What an activity and the tables are made of.  A factor for carriers is of a transport mode:
\* get_freight_emission_factor throws for any other.
IsActivity(a) ==
  /\ a.type \in ActivityType /\ a.issued_from \in STRING \cup {None}
  /\ a.from \in Nat \cup {None} /\ a.thru \in Nat \cup {None}
  /\ a.carrier # None => a.carrier \in DOMAIN CarrierWallet
  /\ a.gwp \in Nat /\ a.quantity \in Nat
ASSUME ActivityAssumption ==
  /\ Now \in Nat /\ None \notin Nat /\ None \notin Factor /\ IsFiniteSet(Factor)
  /\ \A f \in Factor : f.kg \in Nat /\ f.year \in Nat /\ f.key # <<"carrier", None>>
  /\ \A c \in DOMAIN CarrierWallet : CarrierWallet[c] \in STRING \cup {None}

Failed == [ok |-> FALSE, emissions |-> 0, mode |-> None]
Emits(kg, mode) == [ok |-> TRUE, emissions |-> kg, mode |-> mode]

-----------------------------------------------------------------------------
(* Emissions factors. *)

FactorsOf(key, from, thru) ==
  {f \in Factor : f.key = key /\ (from # None => from <= f.year) /\ (thru # None => f.year <= thru)}
Newest(S) == IF S = {} THEN None ELSE CHOOSE f \in S : \A g \in S : g.year <= f.year

\* getEmissionFactor: with no factor in the years asked for, the last year of the level-1 class.
EmissionFactor(key, from, thru) ==
  LET asked == FactorsOf(key, from, thru)
      last == {f \in FactorsOf(key, None, None) :
                 \A g \in Factor : g.key[1] = key[1] => g.year <= f.year}
  IN  Newest(IF asked = {} /\ {from, thru} # {None} THEN last ELSE asked)

\* The callers ask for the dates first and then for any.
FactorFor(key, from, thru) ==
  IF thru # None /\ EmissionFactor(key, from, thru) # None
  THEN EmissionFactor(key, from, thru) ELSE EmissionFactor(key, None, None)

ProcessEmissionsFactor(a, key) ==
  LET f == FactorFor(key, a.from, a.thru) IN
  IF f = None \/ a.quantity = 0 THEN Failed
  ELSE IF ~(f.needs \subseteq a.input) THEN Failed
  ELSE Emits(f.kg * a.quantity,
             IF "distance" \notin f.needs THEN None
             ELSE IF "passengers" \in f.needs THEN "air" ELSE f.mode)

-----------------------------------------------------------------------------
(* One operator per type of activity. *)

\* UPS tells weight and mode of a delivered package; other carriers need them given.
ProcessShipment(a) ==
  LET f == FactorFor(<<"carrier", a.mode>>, a.thru, a.thru)
      given == a.mode # None /\ "weight" \in a.input /\ a.quantity # 0
  IN  IF ~a.found \/ (a.carrier # "ups" /\ ~given) \/ f = None THEN Failed
      ELSE Emits(f.kg * a.quantity, a.mode)

\* quantity: passengers times distance, with one passenger when none are given.
ProcessFlight(a) ==
  LET f == FactorFor(a.key, a.thru, a.thru) IN
  IF ~a.found \/ f = None \/ a.quantity = 0 THEN Failed
  ELSE IF f.needs # {"passengers", "distance"} THEN Failed
  ELSE Emits(f.kg * a.quantity, "air")

NaturalGas == <<"FUELS", "NATURAL GAS">>
Usa == <<"eGRID", "COUNTRY: USA">>

\* key: the country, or in the USA the state of the utility, which may have no factor.
ProcessElectricity(a) ==
  IF a.key[1] # "eGRID" THEN ProcessEmissionsFactor(a, a.key)
  ELSE IF "utility" \notin a.input \/ ~a.found THEN Failed
  ELSE ProcessEmissionsFactor(a, IF EmissionFactor(a.key, a.from, a.thru) # None THEN a.key ELSE Usa)

\* uom "co2e": a weight of CO2 equivalent; "weight": a plain weight in the plural, which
\* kg_from_co2e cuts to the singular and takes for one; "volume"; or any other unit.
ProcessIndustry(a) ==
  LET gas == EmissionFactor(NaturalGas, None, None) IN
  IF a.quantity = 0 THEN Failed
  ELSE IF a.uom \in {"co2e", "weight"} THEN Emits(a.quantity, None)
  ELSE IF a.uom # "volume" THEN Failed
  ELSE IF a.key = <<"flaring">> /\ gas # None THEN Emits(gas.kg * a.quantity, None)
  ELSE IF a.key \in {<<"venting">>, <<"leakage">>}
       THEN Emits((IF a.gwp \in {0, 1} THEN 28 ELSE a.gwp) * a.quantity, None)
  ELSE Failed

ProcessActivity(a) ==
  CASE a.type = "shipment" -> ProcessShipment(a)
    [] a.type = "flight" -> ProcessFlight(a)
    [] a.type = "emissions_factor" -> ProcessEmissionsFactor(a, a.key)
    [] a.type = "natural_gas" -> ProcessEmissionsFactor(a, NaturalGas)
    [] a.type = "electricity" -> ProcessElectricity(a)
    [] a.type = "industry" -> ProcessIndustry(a)
    [] a.type = "other" -> Emits(0, None)

-----------------------------------------------------------------------------
(* group_processed_activities: by type, for shipments by mode, and by issuer. *)

SetIssuedFrom(a, default) ==
  IF a.issued_from # None THEN a.issued_from
  ELSE IF a.type \in {"shipment", "flight"} /\ a.carrier # None /\ CarrierWallet[a.carrier] # None
  THEN CarrierWallet[a.carrier] ELSE default

\* Mutation: shipments of several carriers are put together.
GroupKeyOfMode(a, default) ==
  <<a.type, IF a.type = "shipment" THEN ProcessActivity(a).mode ELSE None, default>>
GroupKey(a, default) ==
  <<a.type, IF a.type = "shipment" THEN ProcessActivity(a).mode ELSE None, SetIssuedFrom(a, default)>>

FromDate(a) == IF a.from = None THEN Now ELSE a.from
ThruDate(a) == IF a.thru = None THEN FromDate(a) ELSE a.thru

Kg(a) == ProcessActivity(a).emissions
Group(S, issuedFrom) ==
  [issued_from |-> issuedFrom,
   total |-> SumFunction([a \in S |-> Kg(a)]),
   from |-> Min({FromDate(a) : a \in S}),
   thru |-> Max({ThruDate(a) : a \in S}),
   content |-> S]

Errors(S) == {a \in S : ~ProcessActivity(a).ok}
GroupProcessedActivities(S, default) ==
  LET Grouped == {a \in S \ Errors(S) : a.type = "shipment" => ProcessActivity(a).mode # None}
      keys == {GroupKey(a, default) : a \in Grouped}
  IN  {Group({a \in Grouped : GroupKey(a, default) = k}, k[3]) : k \in keys}
=============================================================================
