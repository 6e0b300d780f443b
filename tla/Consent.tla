------------------------------ MODULE Consent -------------------------------
(***************************************************************************)
(* What a user's and a publisher's privacy statements let the server do:   *)
(* the auction's own check (exchange/src/privacy.rs), the TCF enforcers    *)
(* and permissions (exchange/src/gdpr.rs), and the CCPA and LMT libraries  *)
(* (exchange/src/privacy.rs and the privacy crate).                        *)
(*                                                                         *)
(* A decision is an operator of the configuration c and of the statements  *)
(* s that a request carries.  The state machine lets the user and the      *)
(* publisher withdraw what they said, one statement at a time; every       *)
(* request after a withdrawal is decided anew.                             *)
(*                                                                         *)
(* A string is one of a few that the code tells apart.  "unset" is None.   *)
(***************************************************************************)
EXTENDS Naturals

CONSTANTS
    Bidders,
    Vendors,      \* ids of the global vendor list
    NoVendor,     \* a bidder that registered no vendor id
    PurposeIds,   \* the TCF purposes, 1..10
    Configs,      \* the configurations considered
    Statements    \* what a request may say before anything is withdrawn

Flag == {"unset", "0", "1"}

\* regs.us_privacy: the legal strings without and with the opt-out, one with an
\* illegal second character, one that is too short, and the GPP text itself.
UsPrivacy == {"unset", "", "1YNN", "1YYN", "1XYN", "XYY", "gpp"}
ThirdIsY(u) == u \in {"1YYN", "1XYN", "XYY"}
FourFromOne(u) == u \in {"1YNN", "1YYN", "1XYN"}

\* A consent string: absent, empty, one that TcfConsent::parse refuses, or one it reads.
ConsentText == {"unset", "", "garbled", "tcf"}

Signal == {"Ambiguous", "No", "Yes"}

\* device.ext.atts: absent, 0 to 2, 3, or a status the code does not know.
Tracking == {"unset", "denied", "authorized", "unknown"}

Statement ==
    [coppa: Flag, lmt: Flag, us_privacy: UsPrivacy \ {"gpp"}, gdpr: Flag \cup {"2"}, extGdpr: Flag,
     gpp_sid: SUBSET {2, 6}, gpp: {"unset", "", "gpp"},
     consent: ConsentText, extConsent: ConsentText,
     purposes: SUBSET PurposeIds, vendors: SUBSET Vendors,
     ios: {"no", "14.0", "14.2"}, ifa: {"zero", "set"}, atts: Tracking,
     country: {"unset", "eea", "other", "odd"}]

PurposeConfig ==
    [enforce_purpose: BOOLEAN, enforce_vendors: BOOLEAN, vendor_exceptions: SUBSET Vendors, full: BOOLEAN]

Config ==
    [enabled: BOOLEAN, default_value: Signal, enforce_purposes: SUBSET PurposeIds,
     require_vendor_consent: BOOLEAN, bidder_exceptions: SUBSET Bidders,
     purposes: [PurposeIds -> PurposeConfig], host_vendor_id: Vendors \cup {NoVendor},
     vendor_ids: [Bidders -> Vendors \cup {NoVendor}], alias_gvl_ids: [Bidders -> Vendors \cup {NoVendor}],
     non_standard: BOOLEAN, declared: [Vendors -> SUBSET PurposeIds], leg_int: [Vendors -> SUBSET PurposeIds],
     purpose_override: Flag, vendors_override: Flag, channel_enabled: BOOLEAN, cfg_default: {"0", "1"},
     no_sale: SUBSET Bidders, no_sale_all: BOOLEAN]

ASSUME ConsentAssumption ==
    /\ {1, 2} \subseteq PurposeIds
    /\ NoVendor \notin Vendors
    /\ Configs \subseteq Config
    /\ Statements \subseteq Statement

-----------------------------------------------------------------------------
(* The auction's check, before a bidder is asked (exchange/src/privacy.rs) *)

\* derive_gdpr_from_gpp: the sections decide when the legacy flag is absent.
GdprApplies(s) == IF s.extGdpr = "unset" /\ s.gpp_sid # {} THEN 2 \in s.gpp_sid ELSE s.extGdpr = "1"

HasConsentString(s) ==
    \/ s.extConsent \notin {"unset", ""}
    \/ 2 \in s.gpp_sid /\ s.gpp = "gpp"

\* derive_usp_from_gpp
UspString(s) ==
    IF s.us_privacy # "unset" THEN s.us_privacy
    ELSE IF 6 \in s.gpp_sid /\ s.gpp = "gpp" THEN "gpp" ELSE "unset"

CheckPrivacy(s) ==
    IF s.coppa = "1" THEN "BlockCoppa"
    ELSE IF s.lmt = "1" THEN "BlockLmt"
    ELSE IF ThirdIsY(UspString(s)) THEN "BlockCcpa"
    ELSE IF GdprApplies(s) /\ ~HasConsentString(s) THEN "BlockGdpr"
    ELSE "Allow"

-----------------------------------------------------------------------------
(* The TCF enforcers and permissions (exchange/src/gdpr.rs)                *)

GetGdprSignal(s) ==
    IF s.gpp_sid # {} THEN (IF 2 \in s.gpp_sid THEN "Yes" ELSE "No")
    ELSE IF s.gdpr = "unset" THEN "Ambiguous"
    ELSE IF s.gdpr = "1" THEN "Yes"
    ELSE IF s.gdpr = "0" THEN "No" ELSE "Err"

\* get_consent hands over the whole GPP text when section 2 applies, which
\* TcfConsent::parse refuses: its first character encodes version 3.
GetConsent(s) == IF 2 \in s.gpp_sid /\ s.gpp = "gpp" THEN "garbled" ELSE s.consent

Parsed(s) == GetConsent(s) = "tcf"

EffectiveSignal(c, sig) == IF sig = "Ambiguous" THEN c.default_value ELSE sig

\* GdprEnforcer::check_bidder
CheckBidder(c, s, b) ==
    IF ~c.enabled THEN TRUE
    ELSE IF b \in c.bidder_exceptions THEN TRUE
    ELSE IF EffectiveSignal(c, GetGdprSignal(s)) # "Yes" THEN TRUE
    ELSE IF ~Parsed(s) THEN FALSE
    ELSE LET denied == {p \in c.enforce_purposes : p \notin s.purposes}
             vendor_ok == \/ ~c.require_vendor_consent
                          \/ c.vendor_ids[b] = NoVendor
                          \/ c.vendor_ids[b] \in s.vendors
         IN  denied = {} /\ vendor_ok

\* ConsentPermissions::bidder_allowed, which decides the same question again.
CanEnforce(c, s) == c.enabled /\ EffectiveSignal(c, GetGdprSignal(s)) = "Yes"

BidderAllowed(c, s, b) ==
    \/ ~CanEnforce(c, s)
    \/ b \in c.bidder_exceptions
    \/ /\ Parsed(s)
       /\ \A p \in c.enforce_purposes : p \in s.purposes
       /\ c.require_vendor_consent => c.vendor_ids[b] = NoVendor \/ c.vendor_ids[b] \in s.vendors

\* PurposeEnforcer::is_allowed
IsAllowed(c, s, p, v) ==
    LET cfg == c.purposes[p]
    IN  \/ v \in cfg.vendor_exceptions
        \/ /\ cfg.enforce_purpose => p \in s.purposes
           /\ cfg.enforce_vendors => v \in s.vendors

\* PermissionsImpl
ResolveVendorId(c, b) == IF c.alias_gvl_ids[b] # NoVendor THEN c.alias_gvl_ids[b] ELSE c.vendor_ids[b]
AllowSync(c, s, v) == Parsed(s) /\ IsAllowed(c, s, 1, v)
GdprYes(c, s) == EffectiveSignal(c, GetGdprSignal(s)) = "Yes"

HostCookiesAllowed(c, s) ==
    GdprYes(c, s) => c.host_vendor_id = NoVendor \/ AllowSync(c, s, c.host_vendor_id)

BidderSyncAllowed(c, s, b) ==
    GdprYes(c, s) => \/ c.non_standard
                     \/ c.vendor_ids[b] = NoVendor
                     \/ AllowSync(c, s, c.vendor_ids[b])

\* auction_activities_allowed answers allow_all without looking at the string.
Unrestricted(c, s, b) == c.non_standard \/ ~GdprYes(c, s) \/ ResolveVendorId(c, b) = NoVendor

AllowBidRequest(c, s, b) ==
    \/ Unrestricted(c, s, b)
    \/ Parsed(s) /\ (b \in c.bidder_exceptions \/ IsAllowed(c, s, 2, ResolveVendorId(c, b)))

PassGeo(c, s, b) ==
    \/ Unrestricted(c, s, b)
    \/ Parsed(s) /\ (b \in c.bidder_exceptions \/ ResolveVendorId(c, b) \in s.vendors)

PassId(c, s, b) ==
    \/ Unrestricted(c, s, b)
    \/ Parsed(s) /\ \/ b \in c.bidder_exceptions
                    \/ \E p \in PurposeIds \ {1} : IsAllowed(c, s, p, ResolveVendorId(c, b))

\* FullEnforcement::legal_basis; the overrides replace the configured flags.
Overridden(flag, own) == IF flag = "unset" THEN own ELSE flag = "1"
LegalBasis(c, s, p, v) ==
    LET cfg == c.purposes[p]
        enforce_purpose == Overridden(c.purpose_override, cfg.enforce_purpose)
        vendor_ok == Overridden(c.vendors_override, cfg.enforce_vendors) => v \in s.vendors
    IN  \/ v \in cfg.vendor_exceptions
        \/ (enforce_purpose => p \in c.declared[v] /\ p \in s.purposes) /\ vendor_ok
        \/ cfg.full /\ (enforce_purpose => p \in c.leg_int[v]) /\ vendor_ok

\* should_block_bidder_gdpr
ShouldBlockBidderGdpr(s) == GdprApplies(s) /\ s.extConsent # "tcf"

\* parse_gdpr_default_value and enforce_gdpr: the country decides when it can.
ParseGdprDefaultValue(c, s) ==
    IF s.country = "eea" THEN "Yes"
    ELSE IF s.country = "other" THEN "No"
    ELSE IF c.cfg_default = "0" THEN "No" ELSE "Yes"

EnforceGdpr(c, s) ==
    LET sig == GetGdprSignal(s)
    IN  /\ sig = "Yes" \/ (sig = "Ambiguous" /\ ParseGdprDefaultValue(c, s) = "Yes")
        /\ c.channel_enabled

-----------------------------------------------------------------------------
(* CCPA and LMT                                                            *)

\* ParsedCcpaPolicy of the exchange: "*" may stand among other bidders.
CcpaShouldEnforce(c, s, b) ==
    FourFromOne(s.us_privacy) /\ ThirdIsY(s.us_privacy) /\ ~(c.no_sale_all \/ b \in c.no_sale)

\* ccpa::Policy of the privacy crate: every character is looked at.
PolicyShouldEnforce(c, s, b) ==
    s.us_privacy = "1YYN" /\ ~(IF c.no_sale_all THEN TRUE ELSE b \in c.no_sale)

\* A bug: the two tracking answers of iOS 14.2 are swapped.
LmtForIosSwapped(s) ==
    IF s.ios = "14.2" /\ s.atts = "denied" THEN "0"
    ELSE IF s.ios = "14.2" /\ s.atts = "authorized" THEN "1"
    ELSE s.lmt

\* modify_lmt_for_ios, then LmtPolicy
ModifyLmtForIos(s) ==
    IF s.ios = "14.0" THEN (IF s.ifa = "zero" THEN "1" ELSE "0")
    ELSE IF s.ios = "14.2" /\ s.atts = "denied" THEN "1"
    ELSE IF s.ios = "14.2" /\ s.atts = "authorized" THEN "0"
    ELSE s.lmt
LmtShouldBlock(s) == ModifyLmtForIos(s) = "1"

-----------------------------------------------------------------------------
(* Withdrawals.  The GPP text and its sections stay as they are: naming    *)
(* another section, or none, moves the request to another jurisdiction, or *)
(* back to the legacy flag, and is no stricter or laxer statement.         *)

VARIABLES config, said

consentVars == <<config, said>>

ConsentInit == config \in Configs /\ said \in Statements

\* The user takes back a purpose, a vendor or the whole string.
WithdrawPurpose == \E p \in said.purposes : said' = [said EXCEPT !.purposes = @ \ {p}]
WithdrawVendor == \E v \in said.vendors : said' = [said EXCEPT !.vendors = @ \ {v}]
WithdrawString ==
    /\ said.consent # "unset" \/ said.extConsent # "unset"
    /\ said' = [said EXCEPT !.consent = "unset", !.extConsent = "unset"]

\* The user opts out of the sale of data, limits or denies tracking, or hides the device id.
OptOutOfSale == said.us_privacy # "1YYN" /\ said' = [said EXCEPT !.us_privacy = "1YYN"]
LimitTracking == said.lmt # "1" /\ said' = [said EXCEPT !.lmt = "1"]
DenyTracking == said.atts # "denied" /\ said' = [said EXCEPT !.atts = "denied"]
HideDeviceId == said.ifa = "set" /\ said' = [said EXCEPT !.ifa = "zero"]

\* The publisher declares a child-directed site, or that GDPR applies.
DeclareChild == said.coppa # "1" /\ said' = [said EXCEPT !.coppa = "1"]
DeclareGdpr ==
    /\ said.gdpr # "1" \/ said.extGdpr # "1"
    /\ said' = [said EXCEPT !.gdpr = "1", !.extGdpr = "1"]

ConsentNext ==
    /\ \/ WithdrawPurpose \/ WithdrawVendor \/ WithdrawString
       \/ OptOutOfSale \/ LimitTracking \/ DenyTracking \/ HideDeviceId
       \/ DeclareChild \/ DeclareGdpr
    /\ UNCHANGED config

ConsentSpec == ConsentInit /\ [][ConsentNext]_consentVars

ConsentTypeOK == config \in Config /\ said \in Statement

-----------------------------------------------------------------------------
\* Whatever the statements t let the server do, the statements s did too.  The
\* enforcers and the permissions are built from a signal, not from an error.
NoWider(c, s, t) ==
    /\ CheckPrivacy(t) = "Allow" => CheckPrivacy(s) = "Allow"
    /\ LmtShouldBlock(s) => LmtShouldBlock(t)
    /\ ShouldBlockBidderGdpr(s) => ShouldBlockBidderGdpr(t)
    /\ \A b \in Bidders :
          /\ CcpaShouldEnforce(c, s, b) => CcpaShouldEnforce(c, t, b)
          /\ PolicyShouldEnforce(c, s, b) => PolicyShouldEnforce(c, t, b)
    /\ \A p \in PurposeIds, v \in Vendors : LegalBasis(c, t, p, v) => LegalBasis(c, s, p, v)
    /\ GetGdprSignal(s) # "Err" =>
          /\ HostCookiesAllowed(c, t) => HostCookiesAllowed(c, s)
          /\ EnforceGdpr(c, s) => EnforceGdpr(c, t)
          /\ \A b \in Bidders :
                /\ CheckBidder(c, t, b) => CheckBidder(c, s, b)
                /\ BidderAllowed(c, t, b) => BidderAllowed(c, s, b)
                /\ BidderSyncAllowed(c, t, b) => BidderSyncAllowed(c, s, b)
                /\ AllowBidRequest(c, t, b) => AllowBidRequest(c, s, b)
                /\ PassGeo(c, t, b) => PassGeo(c, s, b)
                /\ PassId(c, t, b) => PassId(c, s, b)

(* No withdrawal opens a gate: what the auction's check, the enforcers,    *)
(* the permissions and the CCPA and LMT policies refused before a user or  *)
(* a publisher became stricter, they refuse afterwards, although the       *)
(* sources of a signal override one another (sections before flags, the    *)
(* system's tracking status before device.lmt, the GPP text before the     *)
(* consent string).                                                        *)
WithdrawalOpensNoGate == [][said' # said => NoWider(config, said, said')]_consentVars
=============================================================================
