---------------------------- MODULE MCEmbeddedApp ----------------------------
(* The pages of the embedded app and the cache behind them, one after the  *)
(* other: a behaviour stays on the part it starts with, the variables of   *)
(* the others keep their first value.                                      *)
EXTENDS Mappings, CatalogCache, RemoteSearch, Settings

VARIABLE part

MCExact == [v \in Vendors |-> IF v = "b1" THEN "x" ELSE None]
MCVendorOf == [p \in Products |-> "b2"]

AtRest(p) ==
    /\ p # "mappings" => typed = [q \in Products |-> None] /\ section = "readiness"
    /\ p # "catalogue" => copy = 0 /\ ~young
    /\ p # "settings" => connection.key = NoKey

AppInit ==
    /\ MappingsInit /\ CatalogInit /\ SearchInit /\ SettingsInit
    /\ part \in {"mappings", "catalogue", "pickers", "settings"}
    /\ AtRest(part)

OnMappings(A) == part = "mappings" /\ A /\ UNCHANGED <<catalogVars, pickerVars, settingsVars, part>>

AppNext ==
    \/ OnMappings(MappingsNext)
    \/ part = "catalogue" /\ CatalogNext /\ UNCHANGED <<mappingVars, pickerVars, settingsVars, part>>
    \/ part = "pickers" /\ SearchNext /\ UNCHANGED <<mappingVars, catalogVars, settingsVars, part>>
    \/ part = "settings" /\ SettingsNext /\ UNCHANGED <<mappingVars, catalogVars, pickerVars, part>>

appVars == <<mappingVars, catalogVars, pickerVars, settingsVars, part>>

(* MappingsFairness. *)
AppSpec ==
    /\ AppInit /\ [][AppNext]_appVars
    /\ \A r \in Requests : /\ WF_appVars(OnMappings(Handle(r)))
                           /\ WF_appVars(OnMappings(Done(r) \/ Refused(r)))
    /\ WF_appVars(OnMappings(ReadRowsFor)) /\ WF_appVars(OnMappings(ShowAnswer))

=============================================================================
