------------------------------- MODULE MCStore -------------------------------
(* Settings and Limits keep different keys in the cache and read none of each *)
(* other's: each is explored while the other rests.                           *)
EXTENDS Settings, Limits

VARIABLE part   \* the component this behaviour is about

storeVars == <<req, part, cacheVars, settingsVars, limitHistory>>

StoreInit ==
    /\ HandlersInit /\ CacheInit /\ SettingsInit /\ LimitsInit
    /\ part \in {"Settings", "Limits"}

StoreNext ==
    /\ UNCHANGED part
    /\ \/ part = "Settings" /\ SettingsNext /\ UNCHANGED limitHistory
       \/ part = "Limits" /\ LimitsNext /\ UNCHANGED settingsVars

(* Requests in flight run on, and time goes by.                              *)
StoreFairness ==
    /\ \A r \in Reqs : WF_storeVars(LimitsStep(r) /\ UNCHANGED <<part, settingsVars>>)
    /\ WF_storeVars(part = "Limits" /\ LimitsTick /\ UNCHANGED <<part, settingsVars>>)

StoreSpec == StoreInit /\ [][StoreNext]_storeVars /\ StoreFairness

(* Types, of whichever component is moving.                                  *)
TypesOK == (part = "Settings" => SettingsTypeOK) /\ (part = "Limits" => LimitsTypeOK)
=============================================================================
