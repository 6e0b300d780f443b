----------------------------- MODULE MCServices -----------------------------
(***************************************************************************)
(* One instance that runs each service on its own: the initial state picks *)
(* a service, and only that one moves.                                     *)
(***************************************************************************)
EXTENDS AnalyticsWorkers, BatchingBackend, RefreshedCaches, StoredData, Consent

VARIABLE service

servicesVars == <<service, analyticsVars, batchingVars, cacheVars, storeVars, consentVars>>

NoApp == [sitePub |-> "", siteId |-> "", appPub |-> "", appId |-> "", bundle |-> ""]
MCEvents ==
  << [status |-> 200, bytes |-> 1, request |-> [NoApp EXCEPT !.sitePub = "p1", !.siteId = "s1"]],
     [status |-> 200, bytes |-> 3, request |-> [NoApp EXCEPT !.appPub = "p1", !.bundle = "b1"]],
     [status |-> 400, bytes |-> 1, request |-> NoApp],
     [status |-> 200, bytes |-> 1, request |-> [NoApp EXCEPT !.appPub = "p1", !.siteId = "s2"]] >>
MCAccounts == << [pub |-> "p1", site |-> "s1"], [pub |-> "p1", site |-> "b1"] >>

MCBidders == {"alpha", "beta"}
MCVendors == {11, 12}
Purpose(purpose, vendors, exceptions, full) ==
  [enforce_purpose |-> purpose, enforce_vendors |-> vendors, vendor_exceptions |-> exceptions, full |-> full]
Strict ==
  [enabled |-> TRUE, default_value |-> "Yes", enforce_purposes |-> {1, 2}, require_vendor_consent |-> TRUE,
   bidder_exceptions |-> {}, purposes |-> [p \in PurposeIds |-> Purpose(TRUE, TRUE, {}, FALSE)],
   host_vendor_id |-> 11, vendor_ids |-> [b \in Bidders |-> IF b = "alpha" THEN 11 ELSE NoVendor],
   alias_gvl_ids |-> [b \in Bidders |-> IF b = "beta" THEN 12 ELSE NoVendor], non_standard |-> FALSE,
   declared |-> [v \in Vendors |-> {1, 2}], leg_int |-> [v \in Vendors |-> {2}],
   purpose_override |-> "unset", vendors_override |-> "unset", channel_enabled |-> TRUE, cfg_default |-> "0",
   no_sale |-> {}, no_sale_all |-> FALSE]
MCConfigs ==
  {Strict,
   [Strict EXCEPT !.enabled = FALSE, !.non_standard = TRUE, !.no_sale_all = TRUE],
   [Strict EXCEPT !.default_value = "No", !.bidder_exceptions = {"alpha"}, !.no_sale = {"alpha"}],
   [Strict EXCEPT !.require_vendor_consent = FALSE, !.no_sale = {"beta"}, !.no_sale_all = TRUE,
      !.purposes = [p \in PurposeIds |-> Purpose(p # 2, p # 1, {12}, p = 3)]],
   [Strict EXCEPT !.default_value = "Ambiguous", !.purpose_override = "0", !.vendors_override = "1",
      !.purposes = [p \in PurposeIds |-> Purpose(TRUE, p = 2, {}, TRUE)], !.cfg_default = "1"]}
Web ==
  [coppa |-> "unset", lmt |-> "unset", us_privacy |-> "unset", gdpr |-> "unset", extGdpr |-> "unset",
   gpp_sid |-> {}, gpp |-> "unset", consent |-> "tcf", extConsent |-> "tcf", purposes |-> PurposeIds,
   vendors |-> Vendors, ios |-> "no", ifa |-> "zero", atts |-> "denied", country |-> "eea"]
MCStatements ==
  {Web,
   [Web EXCEPT !.gdpr = "0", !.extGdpr = "0", !.us_privacy = "1YNN", !.country = "odd"],
   [Web EXCEPT !.gpp_sid = {6}, !.gpp = "gpp", !.gdpr = "1", !.ios = "14.0", !.ifa = "set", !.coppa = "1"],
   [Web EXCEPT !.gpp_sid = {2}, !.gpp = "gpp", !.ios = "14.2", !.atts = "authorized", !.lmt = "0"],
   [Web EXCEPT !.gpp_sid = {2, 6}, !.gpp = "", !.us_privacy = "1XYN", !.consent = "garbled", !.ios = "14.2", !.atts = "unknown"],
   [Web EXCEPT !.consent = "", !.extConsent = "garbled", !.us_privacy = "XYY", !.country = "other"],
   [Web EXCEPT !.gdpr = "2", !.extGdpr = "1", !.lmt = "1", !.atts = "unset", !.purposes = {1, 2}]}

ServicesInit ==
  /\ service \in {"analytics", "batching", "caches", "store", "consent"}
  /\ AnalyticsInit /\ BatchingInit /\ CachesInit /\ StoreInit /\ ConsentInit
  /\ service # "analytics" => backend = "http" /\ endpoint = "intake"
  /\ service # "caches" => cacheKind = "cell"
  /\ service # "store" => layer = "cached"
  /\ service # "consent" => config = Strict /\ said = Web

ServicesNext ==
  \/ service = "analytics" /\ AnalyticsNext
     /\ UNCHANGED <<service, batchingVars, cacheVars, storeVars, consentVars>>
  \/ service = "batching" /\ BatchingNext
     /\ UNCHANGED <<service, analyticsVars, cacheVars, storeVars, consentVars>>
  \/ service = "caches" /\ CachesNext
     /\ UNCHANGED <<service, analyticsVars, batchingVars, storeVars, consentVars>>
  \/ service = "store" /\ StoreNext
     /\ UNCHANGED <<service, analyticsVars, batchingVars, cacheVars, consentVars>>
  \/ service = "consent" /\ ConsentNext
     /\ UNCHANGED <<service, analyticsVars, batchingVars, cacheVars, storeVars>>

\* Where another service runs, the HTTP worker waits for events and owes no step.
ServicesSpec == ServicesInit /\ [][ServicesNext]_servicesVars /\ AnalyticsFairness
=============================================================================
