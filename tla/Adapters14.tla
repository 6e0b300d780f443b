----------------------------- MODULE Adapters14 -----------------------------
(***************************************************************************)
(* The policies of the adapters in the directory adapters14 of             *)
(* src/rust/crates/adapters/src: what each one does in make_requests and   *)
(* in make_bids.                                                           *)
(***************************************************************************)
EXTENDS AdapterReplies

Across33Adapter14Asks ==
    [Keyed EXCEPT !.on["unfit"] = "skip", !.on["null"] = "skip", !.on["video"] = "skip",
        !.takes = {"banner", "video"}]

Across33Adapter14Reads ==
    Reads(Strict, "USD", <<Rule("ext", <<"video">>, "banner", "banner")>>, Skip)

Across33Adapter14 == Adapter(Across33Adapter14Asks, Across33Adapter14Reads)

AudienceNetworkAdapter14Asks ==
    [Each EXCEPT !.on["null"] = "skip", !.on["blank"] = "skip", !.on["unsized"] = "skip",
        !.needs = {"uid", "app"}]

AudienceNetworkAdapter14Reads ==
    [Reads(Input, "USD",
           <<Rule("imp", <<"banner", "video", "audio", "native">>, "banner", "banner")>>,
           Skip) EXCEPT
        !.partial = "report"]

AudienceNetworkAdapter14 == Adapter(AudienceNetworkAdapter14Asks, AudienceNetworkAdapter14Reads)

CoinzillaAdapter ==
    Adapter(Whole, [Reads(Server, "copy", <<Always("banner")>>, Skip) EXCEPT !.noSeats = Empty])

ConcertAdapter ==
    Adapter(Whole,
            [Reads(Strict, "copy", <<ByMType(<<"banner", "video", "audio">>)>>, Fail(BadServerResponse)) EXCEPT
                !.leadEmpty = BadServerResponse])

ConnatixAdapterAsks ==
    [Each EXCEPT !.on["null"] = "skip", !.needs = {"ip"}]

ConnatixAdapterReads ==
    Reads(Strict, "USD", <<Rule("ext", <<"video">>, "banner", "banner")>>, Skip)

ConnatixAdapter == Adapter(ConnatixAdapterAsks, ConnatixAdapterReads)

ContxtfulAdapterAsks ==
    [Whole EXCEPT !.on["null"] = "shift"]

ContxtfulAdapterReads ==
    [Reads(Strict, "filled",
           <<Rule("imp", <<"video", "native">>, "banner", "banner")>>,
           Skip) EXCEPT
        !.noSeats = BadServerResponse, !.noBids = Empty, !.partial = "report", !.dropsUnpriced = TRUE]

ContxtfulAdapter == Adapter(ContxtfulAdapterAsks, ContxtfulAdapterReads)

Copper6sspAdapter ==
    Adapter(Each,
            Reads(Strict, "filled", <<ByMType(<<"banner", "video", "native">>)>>, Fail(BadServerResponse)))

CpmstarAdapter ==
    Adapter([Whole EXCEPT !.on["null"] = "abort", !.on["unfit"] = "abort", !.takes = {"banner", "video"}],
            Reads(Server, "USD", <<Rule("imp", <<"banner", "video">>, "banner", NoType)>>, Skip))

CwireAdapter == Adapter(Whole, Reads(Server, "copy", <<Always("banner")>>, Skip))

DecenteradsAdapter ==
    Adapter([Each EXCEPT !.on["null"] = "skip"],
            Reads(Strict, "USD",
                  <<Rule("imp", <<"banner", "video", "native", "audio">>, "banner", "banner")>>,
                  Skip))

DefinemediaAdapter ==
    Adapter(Whole,
            Reads(Strict, "USD", <<ByExt(<<"banner", "native">>)>>, FailIfNone(BadServerResponse)))

DianomiAdapter ==
    Adapter([Whole EXCEPT !.on["null"] = "skip", !.on["blank"] = "skip"],
            Reads(Strict, "copy",
                  <<ByExt(<<"banner", "video", "native", "audio">>)>>,
                  Fail(BadServerResponse)))

DisplayioAdapter ==
    Adapter([Each EXCEPT !.on["null"] = "skip"],
            [Reads(Strict, "USD", <<ByMType(<<"banner", "video">>)>>, Fail(BadServerResponse)) EXCEPT
                !.seats = "only", !.noSeats = BadServerResponse])

Edge226Adapter ==
    Adapter(Each,
            Reads(Strict, "copy",
                  <<ByMType(<<"banner", "video", "audio", "native">>)>>,
                  Fail(BadServerResponse)))

ExcoAdapter ==
    Adapter([Whole EXCEPT !.on["null"] = "abort"],
            Reads(Strict, "USD", <<ByMType(<<"banner", "video">>)>>, Fail(BadServerResponse)))

FeedadAdapter == Adapter(Whole, Reads(Strict, "copy", <<Always("banner")>>, Skip))

FlatadsAdapter == Adapter(Each, Reads(Strict, "filled", <<ByImp(<<"banner", "video", "native">>)>>, Skip))

FlippAdapterAsks ==
    [Each EXCEPT !.on["null"] = "skip", !.needs = {"ip"}, !.nothing = "report"]

FlippAdapterReads ==
    [Reads(Strict, "USD", <<Rule("imp", <<>>, "banner", NoType)>>, Skip) EXCEPT !.knownOnly = TRUE]

FlippAdapter == Adapter(FlippAdapterAsks, FlippAdapterReads)

ImpactifyAdapter ==
    Adapter([Whole EXCEPT !.on["null"] = "abort"],
            [Reads(Strict, "copy", <<ByImp(<<"banner", "video">>)>>, Fail(BadInput)) EXCEPT
                !.noSeats = Empty, !.seats = "first", !.dropsUnpriced = TRUE])

IntenzeAdapter ==
    Adapter([Lead EXCEPT !.on["null"] = "abort"],
            [Reads(Strict, "USD", <<ByMType(<<"banner", "video", "native">>)>>, Fail(BadServerResponse)) EXCEPT
                !.noSeats = BadServerResponse])

InteractiveoffersAdapter == Adapter(Lead, Reads(Strict, "copy", <<Always("banner")>>, Skip))

InvibesAdapterAsks ==
    [Whole EXCEPT !.on["null"] = "skip", !.on["unfit"] = "skip", !.takes = {"banner"}, !.lastOfKey = TRUE,
        !.needs = {"site"}]

InvibesAdapterReads ==
    Reads(OnlyOk, "copy or blank", <<Always("banner")>>, Skip)

InvibesAdapter == Adapter(InvibesAdapterAsks, InvibesAdapterReads)

IqxAdapter ==
    Adapter(Each,
            Reads(Server, "filled", <<ByMType(<<"banner", "video", "native">>)>>, Fail(BadServerResponse)))

IqzoneAdapter ==
    Adapter(Each,
            Reads(Server, "filled", <<ByMType(<<"banner", "video", "native">>)>>, Fail(BadServerResponse)))

KiviadsAdapter ==
    Adapter(Each,
            Reads(Strict, "copy", <<ByImp(<<"banner", "video", "native">>)>>, Fail(BadInput)))

KrushmediaAdapter ==
    Adapter([Lead EXCEPT !.on["null"] = "abort"],
            [Reads([Strict EXCEPT ![503] = Empty], "USD",
                   <<Rule("imp", <<"video", "native">>, "banner", "banner")>>,
                   Skip) EXCEPT
                !.seats = "first"])

KueezrtbAdapter ==
    Adapter([Each EXCEPT !.on["null"] = "skip", !.on["blank"] = "skip"],
            Reads(Input, "filled", <<ByMType(<<"banner", "video">>)>>, Fail(BadInput)))

LemmadigitalAdapter ==
    Adapter([Lead EXCEPT !.on["null"] = "abort", !.on["blank"] = "abort"],
            [Reads(Strict, "filled", <<Rule("lead imp", <<"video">>, "banner", "banner")>>, Skip) EXCEPT
                !.seats = "first"])

LimelightDigitalAdapter ==
    Adapter([Each EXCEPT !.on["null"] = "skip"],
            [Reads(Strict, "copy",
                   <<ByImp(<<"banner", "video", "audio", "native">>)>>,
                   FailIfNone(BadServerResponse)) EXCEPT
                !.blankBody = "empty"])

LmKiviadsAdapter ==
    Adapter([Each EXCEPT !.on["null"] = "skip"],
            [Reads([Strict EXCEPT ![503] = BadInput], "USD",
                   <<ByExt(<<"banner", "video", "native", "audio">>)>>,
                   Skip) EXCEPT
                !.noSeats = BadServerResponse])

LoganAdapter ==
    Adapter(Each,
            Reads(Server, "copy", <<ByImp(<<"banner", "video", "native">>)>>, Fail(BadInput)))

MediasquareAdapterAsks ==
    [Whole EXCEPT !.on["null"] = "skip", !.on["unsized"] = "drop", !.on["unfit"] = "drop",
        !.takes = {"banner", "video", "native"}, !.nothing = "send"]

MediasquareAdapterReads ==
    [Reads([Strict EXCEPT ![204] = BadServerResponse], "copy or blank",
           <<Rule("ext", <<"video", "native">>, "banner", "banner")>>,
           Skip) EXCEPT
        !.noSeats = BadServerResponse]

MediasquareAdapter == Adapter(MediasquareAdapterAsks, MediasquareAdapterReads)

MelozenAdapter ==
    Adapter([Whole EXCEPT !.split = "perFormat", !.formats = <<"banner", "video", "native">>,
                !.on["unfit"] = "skip", !.takes = {"banner", "video", "native"}],
            Reads(Strict, "USD",
                  <<ByExt(<<"banner", "video", "native", "audio">>)>>,
                  FailIfNone(BadServerResponse)))

MetaxAdapter ==
    Adapter(Each,
            [Reads(Strict, "filled",
                   <<ByMType(<<"banner", "video", "audio", "native">>)>>,
                   Fail(BadServerResponse)) EXCEPT
                !.noSeats = Empty, !.leadEmpty = Empty])

MgidXAdapter ==
    Adapter([Each EXCEPT !.on["null"] = "abort", !.on["blank"] = "drop", !.nothing = "report"],
            Reads(Strict, "filled",
                  <<ByExt(<<"banner", "video", "native", "audio">>)>>,
                  Fail(BadServerResponse)))

MissenaAdapterAsks ==
    [Whole EXCEPT !.split = "first", !.params = "first", !.on["null"] = "abort"]

MissenaAdapterReads ==
    [Reads(Strict, "copy or blank", <<Always("banner")>>, Skip) EXCEPT !.seats = "first bid",
        !.noSeats = "bare bid", !.credits = "first imp"]

MissenaAdapter == Adapter(MissenaAdapterAsks, MissenaAdapterReads)

MobfoxpbAdapter ==
    Adapter([Whole EXCEPT !.split = "first", !.params = "first", !.on["null"] = "abort",
                !.on["blank"] = "abort"],
            Reads(Server, "USD", <<Rule("imp", <<"banner", "video", "native">>, "banner", NoType)>>, Skip))

MobilefuseAdapter ==
    Adapter([Whole EXCEPT !.on["unfit"] = "drop", !.takes = {"banner", "video", "native"},
                !.nothing = "report"],
            Reads(Strict, "USD", <<Rule("ext", <<"video", "native">>, "banner", "banner")>>, Skip))

MobkoiAdapter ==
    Adapter([Lead EXCEPT !.on["null"] = "abort", !.on["blank"] = "abort"],
            Reads(Strict, "copy", <<Always("banner")>>, Skip))

MotorikAdapter ==
    Adapter([Lead EXCEPT !.on["null"] = "abort"],
            [Reads(Strict, "USD", <<ByImp(<<"banner", "video", "native">>)>>, Fail(BadInput)) EXCEPT
                !.noSeats = BadServerResponse])

MsftAdapterAsks ==
    [Whole EXCEPT !.split = "chunks", !.on["null"] = "skip", !.oneKey = TRUE]

MsftAdapterReads ==
    Reads(Strict, "filled",
          <<Rule("ext", <<"banner", "video", "native">>, NoType, "banner")>>,
          FailIfNone(BadServerResponse))

MsftAdapter == Adapter(MsftAdapterAsks, MsftAdapterReads)

NativeryAdapterAsks ==
    [Each EXCEPT !.on["null"] = "skip"]

NativeryAdapterReads ==
    Reads([Strict EXCEPT ![204] = BadServerResponse], "copy or EUR",
          <<ByExt(<<"banner", "video", "native">>)>>,
          FailIfNone(BadServerResponse))

NativeryAdapter == Adapter(NativeryAdapterAsks, NativeryAdapterReads)

NextmillenniumAdapterAsks ==
    [Each EXCEPT !.on["null"] = "skip"]

NextmillenniumAdapterReads ==
    Reads(Server, "USD", <<ByMType(<<"banner", "video">>)>>, FailIfNone(BadServerResponse))

NextmillenniumAdapter == Adapter(NextmillenniumAdapterAsks, NextmillenniumAdapterReads)

Nexx360Adapter ==
    Adapter(Whole,
            [Reads(Input, "filled", <<ByExt(<<"banner", "video", "native", "audio">>)>>, Skip) EXCEPT
                !.noSeats = Empty, !.noBids = Empty])

PubnativeAdapter ==
    Adapter([Each EXCEPT !.on["unfit"] = "skip", !.on["null"] = "skip", !.on["unsized"] = "skip",
                !.takes = {"banner", "video", "native"}, !.needs = {"os"}],
            [Reads(Strict, "USD", <<Rule("imp", <<"video", "native">>, "banner", "banner")>>, Skip) EXCEPT
                !.dropsUnpriced = TRUE])

PubriseAdapter ==
    Adapter(Each,
            Reads(Strict, "filled", <<ByMType(<<"banner", "video", "native">>)>>, Fail(BadServerResponse)))

PwbidAdapter == Adapter(Whole, Reads(Strict, "USD", <<ByImp(<<"banner", "native", "video">>)>>, Skip))

QtAdapter ==
    Adapter([Each EXCEPT !.on["null"] = "skip"],
            Reads(Strict, "filled", <<MTypeOrBanner>>, Fail(BadServerResponse)))

ReadpeakAdapter ==
    Adapter([Whole EXCEPT !.on["null"] = "skip", !.nothing = "report"],
            Reads(Strict, "filled", <<ByMType(<<"banner", "native">>)>>, FailIfNone(BadServerResponse)))

RediadsAdapter ==
    Adapter([Whole EXCEPT !.on["null"] = "note"],
            Reads(Strict, "filled", <<MTypeOrBanner>>, FailIfNone(BadServerResponse)))

RelevantdigitalAdapterAsks ==
    [Whole EXCEPT !.on["null"] = "warn", !.needs = {"hops"}]

RelevantdigitalAdapterReads ==
    Reads(Strict, "filled",
          <<Rule("mtype", <<"banner", "video", "audio", "native">>, TryNext, TryNext),
            ByExt(<<"banner", "video", "audio", "native">>)>>,
          FailIfNone(BadServerResponse))

RelevantdigitalAdapter == Adapter(RelevantdigitalAdapterAsks, RelevantdigitalAdapterReads)

ResetdigitalAdapterAsks ==
    [Lead EXCEPT !.on["null"] = "abort", !.oneImp = TRUE]

ResetdigitalAdapterReads ==
    [Reads([Strict EXCEPT ![404] = BadInput], "copy or asked",
           <<Rule("mtype", <<"video", "audio", "native">>, "banner", TryNext),
             Rule("imp", <<"video", "native", "audio">>, "banner", NoType)>>,
           Skip) EXCEPT
        !.noSeats = Empty, !.dropsUnpriced = TRUE]

ResetdigitalAdapter == Adapter(ResetdigitalAdapterAsks, ResetdigitalAdapterReads)

RiseAdapter ==
    Adapter([Whole EXCEPT !.on["null"] = "excuse", !.on["blank"] = "excuse"],
            Reads(Strict, "filled",
                  <<ByMType(<<"banner", "video", "native">>)>>,
                  FailIfNone(BadServerResponse)))

SeedingAllianceAdapter14 ==
    Adapter([Whole EXCEPT !.on["null"] = "abort"],
            Reads(Strict, "filled",
                  <<Rule("ext", <<"video", "native", "audio">>, "banner", NoType)>>,
                  FailIfNone(BadServerResponse)))

ShowheroesAdapterAsks ==
    [Whole EXCEPT !.on["null"] = "skip", !.needs = {"page"}]

ShowheroesAdapterReads ==
    Reads(Strict, "filled", <<Rule("mtype", <<"banner">>, "video", "video")>>, Skip)

ShowheroesAdapter == Adapter(ShowheroesAdapterAsks, ShowheroesAdapterReads)

SilvermobAdapter ==
    Adapter([Each EXCEPT !.on["null"] = "skip", !.on["blank"] = "skip"],
            [Reads(Strict, "USD",
                   <<ByMType(<<"banner", "video", "native">>)>>,
                   FailIfNone(BadServerResponse)) EXCEPT
                !.noSeats = BadServerResponse])

SilverpushAdapterAsks ==
    [Each EXCEPT !.on["null"] = "skip", !.on["blank"] = "skip", !.on["unsized"] = "skip",
        !.on["video"] = "skip", !.needs = {"userext"}]

SilverpushAdapterReads ==
    Reads(Input, "filled", <<ByMType(<<"banner", "video">>)>>, Skip)

SilverpushAdapter == Adapter(SilverpushAdapterAsks, SilverpushAdapterReads)

SmarthubAdapter ==
    Adapter(Whole,
            [Reads([Strict EXCEPT ![503] = BadInput], "USD",
                   <<ByExt(<<"banner", "video", "native", "audio">>)>>,
                   Fail(BadServerResponse)) EXCEPT
                !.noSeats = BadServerResponse, !.seats = "first bid"])

SmartrtbAdapter ==
    Adapter([Whole EXCEPT !.on["blank"] = "excuse", !.on["null"] = "excuse", !.on["unfit"] = "drop",
                !.takes = {"banner", "video"}],
            Reads(Strict, "USD", <<ByExt(<<"banner", "video">>)>>, Fail(BadServerResponse)))

SmartxAdapter ==
    Adapter(Whole,
            [Reads(Strict, "filled", <<Always("video")>>, Skip) EXCEPT !.noSeats = BadServerResponse])

SmartyadsAdapter ==
    Adapter(Whole,
            [Reads([Input EXCEPT ![201] = Read, ![204] = BadInput], "USD", <<ImpOrBanner>>, Skip) EXCEPT
                !.noSeats = BadServerResponse, !.seats = "first"])

SmilewantedAdapter ==
    Adapter(Whole,
            Reads(Strict, "USD", <<Rule("imp", <<"video">>, "banner", "banner")>>, Skip))

SmootAdapter ==
    Adapter(Each,
            Reads(Strict, "filled", <<ByMType(<<"banner", "video", "native">>)>>, Fail(BadServerResponse)))

SmrtconnectAdapter ==
    Adapter(Each,
            [Reads(Strict, "filled", <<MTypeOrBanner>>, FailIfNone(BadInput)) EXCEPT
                !.noSeats = BadServerResponse])

SovrnXspAdapter ==
    Adapter([Whole EXCEPT !.on["unfit"] = "drop", !.on["null"] = "skip",
                !.takes = {"banner", "video", "native"}, !.nothing = "report"],
            Reads(Strict, "USD",
                  <<ByExt(<<"banner", "video", "native">>)>>,
                  FailIfNone(BadServerResponse)))

SparteoAdapterAsks ==
    [Whole EXCEPT !.on["null"] = "note"]

SparteoAdapterReads ==
    Reads(Strict, "filled",
          <<ByExt(<<"banner", "video", "native">>)>>,
          FailIfNone(BadServerResponse))

SparteoAdapter == Adapter(SparteoAdapterAsks, SparteoAdapterReads)

SspBcAdapter ==
    Adapter(Whole,
            Reads(Server, "filled",
                  <<ByMType(<<"banner", "video", "audio", "native">>)>>,
                  Fail(BadServerResponse)))

StartioAdapter ==
    Adapter([Each EXCEPT !.needs = {"usd"}],
            [Reads(Strict, "USD", <<ByExt(<<"banner", "video", "native">>)>>, Fail(BadServerResponse)) EXCEPT
                !.leadEmpty = Empty])

StroeerCoreAdapter ==
    Adapter(Whole,
            Reads(OnlyOk, "EUR", <<ByExt(<<"banner", "video">>)>>, Fail(BadServerResponse)))

TappxAdapterAsks ==
    [Lead EXCEPT !.on["null"] = "abort", !.on["blank"] = "abort"]

TappxAdapterReads ==
    Reads(Strict, "USD", <<Rule("imp", <<"video">>, "banner", "banner")>>, Skip)

TappxAdapter == Adapter(TappxAdapterAsks, TappxAdapterReads)

TelariaAdapterAsks ==
    [Lead EXCEPT !.on["unfit"] = "excuse", !.on["null"] = "abort", !.on["blank"] = "abort",
        !.takes = {"video"}, !.bans = {"banner"}]

TelariaAdapterReads ==
    [Reads([Input EXCEPT ![204] = BadInput], "USD", <<Always("video")>>, Skip) EXCEPT
        !.seats = "first", !.credits = "by position"]

TelariaAdapter == Adapter(TelariaAdapterAsks, TelariaAdapterReads)

TeqblazeAdapter ==
    Adapter([Each EXCEPT !.on["null"] = "skip"],
            Reads(Strict, "filled", <<ByMType(<<"banner", "video", "native">>)>>, Fail(BadServerResponse)))

TheadxAdapter ==
    Adapter([Whole EXCEPT !.on["null"] = "skip", !.on["blank"] = "skip", !.nothing = "send"],
            Reads(Strict, "copy",
                  <<ByExt(<<"banner", "video", "native", "audio">>)>>,
                  Fail(BadServerResponse)))

ThetradedeskAdapterAsks ==
    Whole

ThetradedeskAdapterReads ==
    Reads(Strict, "filled", <<ByMType(<<"banner", "video", "native">>)>>, Fail(BadServerResponse))

ThetradedeskAdapter == Adapter(ThetradedeskAdapterAsks, ThetradedeskAdapterReads)

TpmnAdapter ==
    Adapter(Whole,
            Reads(Strict, "copy", <<ByMType(<<"banner", "video", "native">>)>>, Fail(BadServerResponse)))

TradplusAdapter ==
    Adapter([Lead EXCEPT !.on["null"] = "abort", !.on["blank"] = "abort"],
            Reads(Input, "USD", <<ByMType(<<"banner", "video", "native">>)>>, Skip))

TrafficgateAdapter ==
    Adapter([Keyed EXCEPT !.on["null"] = "abort"],
            Reads(Server, "copy",
                  <<Rule("ext", <<"video", "native", "audio">>, "banner", NoType)>>,
                  Fail(BadServerResponse)))

TrustedstackAdapter ==
    Adapter(Whole,
            Reads(Strict, "USD", <<ByMType(<<"banner", "video", "native">>)>>, Skip))

TrustxAdapter ==
    Adapter(Whole,
            Reads(Strict, "USD", <<ByMType(<<"banner", "video">>)>>, FailIfNone(BadServerResponse)))

UcfunnelAdapter ==
    Adapter([Lead EXCEPT !.on["null"] = "abort", !.on["blank"] = "abort"],
            [Reads(Strict, "USD",
                   <<Rule("imp", <<"banner", "video", "audio", "native">>, "native", "native")>>,
                   Skip) EXCEPT
                !.keeps = {"banner", "video"}])

UndertoneAdapterAsks ==
    [Whole EXCEPT !.on["null"] = "skip"]

UndertoneAdapterReads ==
    Reads(Strict, "copy or blank", <<ByImp(<<"banner", "video">>)>>, Skip)

UndertoneAdapter == Adapter(UndertoneAdapterAsks, UndertoneAdapterReads)

UnicornAdapterAsks ==
    [Whole EXCEPT !.on["null"] = "abort", !.on["blank"] = "abort", !.needs = {"noregs", "app"}]

UnicornAdapterReads ==
    Reads(Strict, "copy or blank", <<Always("banner")>>, Skip)

UnicornAdapter == Adapter(UnicornAdapterAsks, UnicornAdapterReads)

VideoHeroesAdapter ==
    Adapter([Lead EXCEPT !.on["null"] = "abort", !.on["blank"] = "abort"],
            [Reads([Strict EXCEPT ![503] = BadInput], "USD",
                   <<Rule("imp", <<"video", "native">>, "banner", "banner")>>,
                   Skip) EXCEPT
                !.noSeats = BadServerResponse, !.seats = "first"])

VideobyteAdapter ==
    Adapter(Each,
            Reads(Strict, "USD", <<Rule("imp", <<"banner">>, "video", "video")>>, Skip))

VidoomyAdapter ==
    Adapter([Each EXCEPT !.on["unsized"] = "skip"],
            Reads(Server, "USD", <<ByImp(<<"video", "banner">>)>>, FailIfNone(BadServerResponse)))

VisiblemeasuresAdapter ==
    Adapter(Each,
            Reads(Server, "filled", <<ByImp(<<"banner", "video", "native">>)>>, Fail(BadInput)))

VisxAdapter ==
    Adapter(Whole,
            Reads(Strict, "filled",
                  <<Rule("ext", <<"banner", "video">>, TryNext, TryNext),
                    ByImp(<<"banner", "video">>)>>,
                  Fail(BadServerResponse)))

VoxAdapter == Adapter(Whole, Reads(Strict, "copy or blank", <<MTypeOrBanner>>, Fail(BadServerResponse)))

VrtcalAdapter == Adapter(Whole, Reads(Strict, "USD", <<ByMType(<<"banner", "video", "native">>)>>, Skip))

VungleAdapter ==
    Adapter([Each EXCEPT !.on["floor"] = "skip", !.needs = {"app"}],
            Reads(Strict, "copy", <<Always("video")>>, Skip))

XeworksAdapterAsks ==
    [Each EXCEPT !.on["null"] = "skip"]

XeworksAdapterReads ==
    [Reads([Strict EXCEPT ![503] = BadInput], "USD",
           <<ByExt(<<"banner", "video", "native", "audio">>)>>,
           FailIfNone(BadServerResponse)) EXCEPT
        !.noSeats = BadServerResponse]

XeworksAdapter == Adapter(XeworksAdapterAsks, XeworksAdapterReads)

YahooAdsAdapter ==
    Adapter([Each EXCEPT !.on["null"] = "skip", !.on["unsized"] = "skip"],
            Reads(Server, "USD",
                  <<Rule("imp", <<"banner", "video">>, "banner", NoType)>>,
                  Fail(BadServerResponse)))

YeahmobiAdapterAsks ==
    [Whole EXCEPT !.on["null"] = "excuse"]

YeahmobiAdapterReads ==
    Reads(Strict, "USD",
          <<Rule("imp", <<"banner", "video", "native">>, "banner", "banner")>>,
          Skip)

YeahmobiAdapter == Adapter(YeahmobiAdapterAsks, YeahmobiAdapterReads)

YieldlabAdapterAsks ==
    [Whole EXCEPT !.on["null"] = "excuse"]

YieldlabAdapterReads ==
    [Reads(Server, "EUR", <<ByImp(<<"video", "banner">>)>>, Skip) EXCEPT !.knownOnly = TRUE]

YieldlabAdapter == Adapter(YieldlabAdapterAsks, YieldlabAdapterReads)

YieldmoAdapterAsks ==
    [Whole EXCEPT !.on["null"] = "note"]

YieldmoAdapterReads ==
    Reads(Strict, "USD", <<ByExt(<<"banner", "video", "native">>)>>, Skip)

YieldmoAdapter == Adapter(YieldmoAdapterAsks, YieldmoAdapterReads)

YieldoneAdapter ==
    Adapter([Whole EXCEPT !.nothing = "send"],
            Reads(Strict, "filled", <<ByImp(<<"banner", "video">>)>>, FailIfNone(BadServerResponse)))

ZentotemAdapter == Adapter(Each, Reads(Strict, "filled", <<MTypeOrBanner>>, FailIfNone(BadServerResponse)))

ZeroclickfraudAdapter ==
    Adapter([Keyed EXCEPT !.on["null"] = "abort", !.on["blank"] = "abort"],
            Reads(Strict, "filled", <<Rule("imp", <<"video", "native">>, "banner", "banner")>>, Skip))

ZetaGlobalSspAdapter ==
    Adapter(Lead,
            Reads(Strict, "filled",
                  <<ByExt(<<"banner", "video", "native", "audio">>)>>,
                  FailIfNone(BadServerResponse)))

ZmaticooAdapter ==
    Adapter([Whole EXCEPT !.on["null"] = "abort", !.on["blank"] = "abort", !.on["native"] = "abort"],
            Reads(Input, "USD", <<MTypeOrBanner>>, FailIfNone(BadServerResponse)))

(* The adapters of the directory. *)
InAdapters14 ==
    {Across33Adapter14, AudienceNetworkAdapter14, CoinzillaAdapter, ConcertAdapter,
     ConnatixAdapter, ContxtfulAdapter, Copper6sspAdapter, CpmstarAdapter, CwireAdapter,
     DecenteradsAdapter, DefinemediaAdapter, DianomiAdapter, DisplayioAdapter, Edge226Adapter,
     ExcoAdapter, FeedadAdapter, FlatadsAdapter, FlippAdapter, ImpactifyAdapter, IntenzeAdapter,
     InteractiveoffersAdapter, InvibesAdapter, IqxAdapter, IqzoneAdapter, KiviadsAdapter,
     KrushmediaAdapter, KueezrtbAdapter, LemmadigitalAdapter, LimelightDigitalAdapter,
     LmKiviadsAdapter, LoganAdapter, MediasquareAdapter, MelozenAdapter, MetaxAdapter,
     MgidXAdapter, MissenaAdapter, MobfoxpbAdapter, MobilefuseAdapter, MobkoiAdapter,
     MotorikAdapter, MsftAdapter, NativeryAdapter, NextmillenniumAdapter, Nexx360Adapter,
     PubnativeAdapter, PubriseAdapter, PwbidAdapter, QtAdapter, ReadpeakAdapter, RediadsAdapter,
     RelevantdigitalAdapter, ResetdigitalAdapter, RiseAdapter, SeedingAllianceAdapter14,
     ShowheroesAdapter, SilvermobAdapter, SilverpushAdapter, SmarthubAdapter, SmartrtbAdapter,
     SmartxAdapter, SmartyadsAdapter, SmilewantedAdapter, SmootAdapter, SmrtconnectAdapter,
     SovrnXspAdapter, SparteoAdapter, SspBcAdapter, StartioAdapter, StroeerCoreAdapter,
     TappxAdapter, TelariaAdapter, TeqblazeAdapter, TheadxAdapter, ThetradedeskAdapter,
     TpmnAdapter, TradplusAdapter, TrafficgateAdapter, TrustedstackAdapter, TrustxAdapter,
     UcfunnelAdapter, UndertoneAdapter, UnicornAdapter, VideoHeroesAdapter, VideobyteAdapter,
     VidoomyAdapter, VisiblemeasuresAdapter, VisxAdapter, VoxAdapter, VrtcalAdapter, VungleAdapter,
     XeworksAdapter, YahooAdsAdapter, YeahmobiAdapter, YieldlabAdapter, YieldmoAdapter,
     YieldoneAdapter, ZentotemAdapter, ZeroclickfraudAdapter, ZetaGlobalSspAdapter, ZmaticooAdapter}

=============================================================================
