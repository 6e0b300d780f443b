---------------------------- MODULE Adapters1to5 ----------------------------
(***************************************************************************)
(* The policies of the adapters in the directories adapters to adapters5   *)
(* of src/rust/crates/adapters/src: what each one does in make_requests    *)
(* and in make_bids.                                                       *)
(***************************************************************************)
EXTENDS AdapterReplies

-----------------------------------------------------------------------------
(* adapters *)

Across33Adapter1Asks ==
    [Keyed EXCEPT !.on["null"] = "skip", !.on["unfit"] = "skip", !.on["video"] = "skip",
        !.takes = {"banner", "video"}]

Across33Adapter1Reads ==
    Reads(Strict, "USD", <<Rule("ext", <<"video">>, "banner", "banner")>>, Skip)

Across33Adapter1 == Adapter(Across33Adapter1Asks, Across33Adapter1Reads)

AppnexusAdapterAsks ==
    [Whole EXCEPT !.split = "chunks", !.on["null"] = "skip", !.on["blank"] = "skip", !.oneKey = TRUE]

AppnexusAdapterReads ==
    Reads(Strict, "filled",
          <<Rule("ext", <<"banner", "video", "native">>, NoType, "banner")>>,
          FailIfNone(BadServerResponse))

AppnexusAdapter == Adapter(AppnexusAdapterAsks, AppnexusAdapterReads)

BeachfrontAdapterAsks ==
    [Whole EXCEPT !.split = "slotsAndVideos", !.on["unfit"] = "drop", !.on["unsized"] = "drop",
        !.on["null"] = "skip", !.on["blank"] = "skip", !.takes = {"banner", "video"}, !.nothing = "report"]

BeachfrontAdapterReads ==
    [Reads(ByClass, "USD",
           <<Rule("asked", <<"banner", "video", "native", "audio">>, NoType, NoType)>>,
           Skip) EXCEPT
        !.noSeats = BadServerResponse]

BeachfrontAdapter == Adapter(BeachfrontAdapterAsks, BeachfrontAdapterReads)

CriteoAdapterAsks ==
    Whole

CriteoAdapterReads ==
    Reads(Strict, "filled",
          <<Rule("ext", <<"banner", "video", "native", "audio">>, "banner", NoType)>>,
          Fail(BadServerResponse))

CriteoAdapter == Adapter(CriteoAdapterAsks, CriteoAdapterReads)

IxAdapterAsks ==
    [Whole EXCEPT !.on["null"] = "skip"]

IxAdapterReads ==
    Reads(Strict, "copy",
          <<Rule("mtype", <<"banner", "video", "native", "audio">>, TryNext, TryNext),
            Rule("ext", <<"banner", "video", "native", "audio">>, NoType, TryNext),
            ByImp(<<"banner", "video", "native", "audio">>)>>,
          Skip)

IxAdapter == Adapter(IxAdapterAsks, IxAdapterReads)

OpenxAdapterAsks ==
    [Whole EXCEPT !.split = "videosApart", !.on["unfit"] = "drop", !.on["null"] = "hush",
        !.takes = {"banner", "video", "native"}]

OpenxAdapterReads ==
    Reads(Strict, "filled",
          <<Rule("imp", <<"banner", "video", "native">>, "banner", "banner")>>,
          Skip)

OpenxAdapter == Adapter(OpenxAdapterAsks, OpenxAdapterReads)

PubmaticAdapterAsks ==
    [Whole EXCEPT !.on["null"] = "skip"]

PubmaticAdapterReads ==
    Reads(Strict, "filled", <<ImpOrBanner>>, Skip)

PubmaticAdapter == Adapter(PubmaticAdapterAsks, PubmaticAdapterReads)

RubiconAdapterAsks ==
    [Each EXCEPT !.on["null"] = "skip", !.on["unsized"] = "skip", !.on["unfit"] = "skip",
        !.takes = {"banner", "video", "native"}]

RubiconAdapterReads ==
    [Reads(Strict, "filled",
           <<Rule("asked", <<"video", "banner", "native">>, NoType, NoType)>>,
           Skip) EXCEPT
        !.dropsUnpriced = TRUE]

RubiconAdapter == Adapter(RubiconAdapterAsks, RubiconAdapterReads)

SharethroughAdapterAsks ==
    [Whole EXCEPT !.split = "perFormat", !.formats = <<"banner", "video", "native">>,
        !.on["null"] = "skip", !.on["unfit"] = "skip", !.takes = {"banner", "video", "native"}]

SharethroughAdapterReads ==
    Reads(Strict, "USD", <<ByExt(<<"banner", "video", "native", "audio">>)>>, Skip)

SharethroughAdapter == Adapter(SharethroughAdapterAsks, SharethroughAdapterReads)

SovrnAdapterAsks ==
    [Whole EXCEPT !.on["null"] = "skip", !.on["blank"] = "skip", !.on["video"] = "skip"]

SovrnAdapterReads ==
    Reads(Strict, "USD", <<Rule("imp", <<"video">>, "banner", NoType)>>, Skip)

SovrnAdapter == Adapter(SovrnAdapterAsks, SovrnAdapterReads)

(* The adapters of the directory. *)
InAdapters1 ==
    {Across33Adapter1, AppnexusAdapter, BeachfrontAdapter, CriteoAdapter, IxAdapter, OpenxAdapter,
     PubmaticAdapter, RubiconAdapter, SharethroughAdapter, SovrnAdapter}

-----------------------------------------------------------------------------
(* adapters2 *)

ConversantAdapterAsks ==
    [Whole EXCEPT !.on["null"] = "abort", !.on["blank"] = "abort"]

ConversantAdapterReads ==
    [Reads(Server, "USD",
           <<Rule("imp", <<"native", "audio", "video">>, "banner", "banner")>>,
           Skip) EXCEPT
        !.noSeats = BadServerResponse, !.seats = "first"]

ConversantAdapter == Adapter(ConversantAdapterAsks, ConversantAdapterReads)

EmxDigitalAdapterAsks ==
    [Each EXCEPT !.on["null"] = "abort", !.on["blank"] = "drop", !.nothing = "report"]

EmxDigitalAdapterReads ==
    Reads(Strict, "filled", <<ImpOrBanner>>, Skip)

EmxDigitalAdapter == Adapter(EmxDigitalAdapterAsks, EmxDigitalAdapterReads)

GridAdapterAsks ==
    [Whole EXCEPT !.on["blank"] = "skip", !.on["null"] = "skip"]

GridAdapterReads ==
    Reads(Strict, "USD",
          <<Rule("ext", <<"banner", "video", "native">>, "banner", TryNext),
            ByImp(<<"banner", "video", "native">>)>>,
          Fail(BadServerResponse))

GridAdapter == Adapter(GridAdapterAsks, GridAdapterReads)

GumgumAdapterAsks ==
    [Whole EXCEPT !.on["null"] = "skip"]

GumgumAdapterReads ==
    Reads(Strict, "filled", <<Rule("imp", <<"banner">>, "video", "video")>>, Skip)

GumgumAdapter == Adapter(GumgumAdapterAsks, GumgumAdapterReads)

InmobiAdapter ==
    Adapter([Lead EXCEPT !.on["blank"] = "abort", !.on["null"] = "abort"],
            Reads(Server, "USD", <<ByMType(<<"banner", "video", "native">>)>>, Fail(BadServerResponse)))

LockerdomeAdapter2 ==
    Adapter([Whole EXCEPT !.on["unfit"] = "skip", !.on["blank"] = "skip", !.on["null"] = "skip",
                !.takes = {"banner"}],
            Reads(Strict, "USD", <<Always("banner")>>, Skip))

OnetagAdapter ==
    Adapter([Whole EXCEPT !.on["blank"] = "abort", !.on["null"] = "abort", !.oneKey = TRUE],
            Reads(Server, "filled", <<ByImp(<<"banner", "video", "native">>)>>, Fail(BadServerResponse)))

OpenaudienceAdapter == Adapter(Whole, Reads(Strict, "filled", <<ImpOrBanner>>, Skip))

OutbrainAdapterAsks ==
    [Whole EXCEPT !.on["null"] = "note"]

OutbrainAdapterReads ==
    [Reads(Strict, "copy", <<ByImp(<<"native", "banner", "video">>)>>, FailIfNone(BadInput)) EXCEPT
        !.partial = "report", !.partialOf = {"native"}]

OutbrainAdapter == Adapter(OutbrainAdapterAsks, OutbrainAdapterReads)

PangleAdapter2Asks ==
    [Each EXCEPT !.on["unfit"] = "skip", !.on["blank"] = "skip", !.on["null"] = "skip",
        !.takes = {"banner", "video", "native"}, !.fullscreen = {"video"}]

PangleAdapter2Reads ==
    Reads(Strict, "filled", <<ByExt(<<"banner", "native", "video">>)>>, Fail(BadServerResponse))

PangleAdapter2 == Adapter(PangleAdapter2Asks, PangleAdapter2Reads)

PulsepointAdapterAsks ==
    [Whole EXCEPT !.on["blank"] = "skip", !.on["null"] = "skip"]

PulsepointAdapterReads ==
    Reads(Strict, "USD", <<ByImp(<<"banner", "video", "audio", "native">>)>>, Skip)

PulsepointAdapter == Adapter(PulsepointAdapterAsks, PulsepointAdapterReads)

RichaudienceAdapterAsks ==
    [Each EXCEPT !.on["unsized"] = "skip", !.on["video"] = "skip", !.needs = {"ip"}]

RichaudienceAdapterReads ==
    Reads(Strict, "filled", <<Rule("imp", <<"video">>, "banner", "banner")>>, Skip)

RichaudienceAdapter == Adapter(RichaudienceAdapterAsks, RichaudienceAdapterReads)

RtbhouseAdapterAsks ==
    Whole

RtbhouseAdapterReads ==
    [Reads(Strict, "USD", <<ByMType(<<"banner", "native">>)>>, Skip) EXCEPT !.partial = "skip",
        !.partialOf = {"native"}]

RtbhouseAdapter == Adapter(RtbhouseAdapterAsks, RtbhouseAdapterReads)

SeedingallianceAdapterAsks ==
    Whole

SeedingallianceAdapterReads ==
    Reads(Strict, "filled", <<ByExt(<<"banner", "video", "native", "audio">>)>>, Skip)

SeedingallianceAdapter == Adapter(SeedingallianceAdapterAsks, SeedingallianceAdapterReads)

SmaatoAdapterAsks ==
    [Whole EXCEPT !.split = "perFormat", !.formats = <<"banner", "video", "native">>,
        !.on["unfit"] = "skip", !.on["blank"] = "skip", !.on["null"] = "skip",
        !.takes = {"banner", "video", "native"}, !.needs = {"place"}]

SmaatoAdapterReads ==
    [Reads(Server, "USD",
           <<Rule("header", <<"banner", "video", "native">>, NoType, NoType)>>,
           Fail(BadServerResponse)) EXCEPT
        !.headerFirst = TRUE, !.partial = "report", !.partialOf = {"native"}]

SmaatoAdapter == Adapter(SmaatoAdapterAsks, SmaatoAdapterReads)

SmartadserverAdapterAsks ==
    [Whole EXCEPT !.on["null"] = "skip"]

SmartadserverAdapterReads ==
    Reads(Strict, "USD",
          <<Rule("mtype", <<"video", "native", "audio">>, "banner", "banner")>>,
          Skip)

SmartadserverAdapter == Adapter(SmartadserverAdapterAsks, SmartadserverAdapterReads)

SonobiAdapter2 ==
    Adapter(Each,
            Reads(Strict, "USD",
                  <<Rule("imp", <<"banner", "video", "native">>, "banner", NoType)>>,
                  Fail(BadInput)))

SpikeAdapter == Adapter(Whole, Reads(Strict, "filled", <<ImpOrBanner>>, Skip))

StroeerAdapterAsks ==
    Whole

StroeerAdapterReads ==
    Reads(Server, "EUR", <<ByExt(<<"banner", "video">>)>>, Skip)

StroeerAdapter == Adapter(StroeerAdapterAsks, StroeerAdapterReads)

SynacormediaAdapterAsks ==
    [Whole EXCEPT !.on["null"] = "skip", !.on["blank"] = "fault"]

SynacormediaAdapterReads ==
    [Reads(Strict, "USD", <<ImpOrBanner>>, Skip) EXCEPT !.keeps = {"banner", "video"}]

SynacormediaAdapter == Adapter(SynacormediaAdapterAsks, SynacormediaAdapterReads)

TaboolaAdapterAsks ==
    [Whole EXCEPT !.split = "nativesFirst", !.on["unfit"] = "drop", !.on["null"] = "skip",
        !.takes = {"banner", "native"}]

TaboolaAdapterReads ==
    Reads(Strict, "copy", <<ByImp(<<"banner", "native">>)>>, FailIfNone(BadInput))

TaboolaAdapter == Adapter(TaboolaAdapterAsks, TaboolaAdapterReads)

TripleliftAdapterAsks ==
    [Whole EXCEPT !.on["unfit"] = "skip", !.on["null"] = "skip", !.takes = {"banner", "video"}]

TripleliftAdapterReads ==
    Reads(Strict, "USD", <<Rule("ext", <<"video">>, "banner", NoType)>>, Skip)

TripleliftAdapter == Adapter(TripleliftAdapterAsks, TripleliftAdapterReads)

UnrulyAdapter2 ==
    Adapter([Whole EXCEPT !.on["blank"] = "abort", !.on["null"] = "abort"],
            Reads(Strict, "USD", <<ByImp(<<"banner", "video">>)>>, Skip))

YandexAdapterAsks ==
    [Each EXCEPT !.on["null"] = "skip", !.on["unfit"] = "skip", !.on["unsized"] = "skip",
        !.on["video"] = "skip", !.takes = {"banner", "video", "native"}]

YandexAdapterReads ==
    Reads(Strict, "USD", <<Rule("imp", <<"video", "native", "audio">>, "banner", NoType)>>, Skip)

YandexAdapter == Adapter(YandexAdapterAsks, YandexAdapterReads)

(* The adapters of the directory. *)
InAdapters2 ==
    {ConversantAdapter, EmxDigitalAdapter, GridAdapter, GumgumAdapter, InmobiAdapter,
     LockerdomeAdapter2, OnetagAdapter, OpenaudienceAdapter, OutbrainAdapter, PangleAdapter2,
     PulsepointAdapter, RichaudienceAdapter, RtbhouseAdapter, SeedingallianceAdapter,
     SmaatoAdapter, SmartadserverAdapter, SonobiAdapter2, SpikeAdapter, StroeerAdapter,
     SynacormediaAdapter, TaboolaAdapter, TripleliftAdapter, UnrulyAdapter2, YandexAdapter}

-----------------------------------------------------------------------------
(* adapters3 to adapters5 *)

AdkernelAdapterAsks ==
    [Keyed EXCEPT !.on["blank"] = "skip", !.on["null"] = "skip"]

AdkernelAdapterReads ==
    [Reads(Server, "filled",
           <<ByMType(<<"banner", "video", "native", "audio">>)>>,
           Fail(BadServerResponse)) EXCEPT
        !.seats = "only", !.noSeats = BadServerResponse]

AdkernelAdapter == Adapter(AdkernelAdapterAsks, AdkernelAdapterReads)

AdmanAdapter ==
    Adapter(Each,
            Reads([AnyStatus EXCEPT ![404] = BadServerResponse], "USD",
                  <<Rule("imp", <<"banner", "video">>, "banner", NoType)>>,
                  Skip))

AdmixerAdapterAsks ==
    [Whole EXCEPT !.on["blank"] = "skip", !.on["null"] = "skip"]

AdmixerAdapterReads ==
    [Reads(ByClass, "USD",
           <<Rule("imp", <<"banner", "video", "native", "audio">>, "banner", "banner")>>,
           Skip) EXCEPT
        !.leadEmpty = Empty]

AdmixerAdapter == Adapter(AdmixerAdapterAsks, AdmixerAdapterReads)

AdtelligentAdapterAsks ==
    [Keyed EXCEPT !.on["unfit"] = "skip", !.on["null"] = "skip", !.on["blank"] = "skip",
        !.takes = {"banner", "video"}]

AdtelligentAdapterReads ==
    Reads(AnyStatus, "USD", <<Rule("imp", <<"video">>, "banner", NoType)>>, Skip)

AdtelligentAdapter == Adapter(AdtelligentAdapterAsks, AdtelligentAdapterReads)

EplanningAdapterAsks ==
    [Whole EXCEPT !.on["unfit"] = "skip", !.on["null"] = "skip", !.on["blank"] = "skip", !.videoRules = TRUE]

EplanningAdapterReads ==
    Reads(Strict, "USD", <<Rule("any imp", <<"video">>, "banner", "banner")>>, Skip)

EplanningAdapter == Adapter(EplanningAdapterAsks, EplanningAdapterReads)

LockerdomeAdapter3 ==
    Adapter([Whole EXCEPT !.on["unfit"] = "skip", !.on["blank"] = "skip", !.on["null"] = "skip",
                !.takes = {"banner"}],
            Reads(Strict, "USD", <<Always("banner")>>, Skip))

LoopmeAdapter ==
    Adapter(Each,
            [Reads(Strict, "filled", <<ByMType(<<"banner", "video", "native", "audio">>)>>, Skip) EXCEPT
                !.noSeats = Empty, !.leadEmpty = Empty, !.noBids = Empty])

NativoAdapter == Adapter(Whole, Reads(Strict, "USD", <<ByImp(<<"native", "video", "banner">>)>>, Skip))

NobidAdapter ==
    Adapter(Whole,
            Reads(Strict, "USD", <<Rule("imp", <<"banner", "video">>, "banner", NoType)>>, Skip))

RevcontentAdapter ==
    Adapter([Whole EXCEPT !.needs = {"domain"}],
            Reads(Strict, "USD", <<Rule("markup", <<"native">>, "banner", "banner")>>, Skip))

SonobiAdapter3 ==
    Adapter(Each,
            Reads(Strict, "USD",
                  <<Rule("imp", <<"banner", "video", "native">>, "banner", NoType)>>,
                  Fail(BadInput)))

TeadsAdapterAsks ==
    [Whole EXCEPT !.on["blank"] = "abort", !.on["null"] = "abort"]

TeadsAdapterReads ==
    [Reads(Strict, "filled", <<Rule("imp", <<"video">>, "banner", NoType)>>, Fail(BadInput)) EXCEPT
        !.partial = BadInput]

TeadsAdapter == Adapter(TeadsAdapterAsks, TeadsAdapterReads)

TripleliftNativeAdapterAsks ==
    [Whole EXCEPT !.on["unfit"] = "skip", !.takes = {"native"}, !.needs = {"publisher"}]

TripleliftNativeAdapterReads ==
    Reads(Strict, "USD", <<Always("native")>>, Skip)

TripleliftNativeAdapter == Adapter(TripleliftNativeAdapterAsks, TripleliftNativeAdapterReads)

UnrulyAdapter3 ==
    Adapter([Whole EXCEPT !.on["blank"] = "abort", !.on["null"] = "abort"],
            Reads(Strict, "USD", <<ByImp(<<"banner", "video">>)>>, Skip))

VidazooAdapterAsks ==
    [Each EXCEPT !.on["null"] = "skip"]

VidazooAdapterReads ==
    Reads(Input, "filled", <<ByMType(<<"banner", "video">>)>>, FailIfNone(BadInput))

VidazooAdapter == Adapter(VidazooAdapterAsks, VidazooAdapterReads)

(* The adapters of the directory. *)
InAdapters3 ==
    {AdkernelAdapter, AdmanAdapter, AdmixerAdapter, AdtelligentAdapter, EplanningAdapter,
     LockerdomeAdapter3, LoopmeAdapter, NativoAdapter, NobidAdapter, RevcontentAdapter,
     SonobiAdapter3, TeadsAdapter, TripleliftNativeAdapter, UnrulyAdapter3, VidazooAdapter}

-----------------------------------------------------------------------------

ColossusAdapter ==
    Adapter(Each,
            Reads(Strict, "USD",
                  <<Rule("ext", <<"banner", "native", "video">>, TryNext, TryNext),
                    ByImp(<<"banner", "video", "native">>)>>,
                  FailIfNone(BadInput)))

ConnectadAdapterAsks ==
    [Whole EXCEPT !.on["null"] = "abort", !.on["blank"] = "abort", !.on["unfit"] = "abort",
        !.on["unsized"] = "abort", !.takes = {"banner"}]

ConnectadAdapterReads ==
    Reads(Server, "USD", <<Always("banner")>>, Skip)

ConnectadAdapter == Adapter(ConnectadAdapterAsks, ConnectadAdapterReads)

ConsumableAdapterAsks ==
    [Lead EXCEPT !.on["null"] = "abort", !.on["blank"] = "giveUp"]

ConsumableAdapterReads ==
    Reads(Strict, "filled", <<ByMType(<<"banner", "video", "audio">>)>>, Skip)

ConsumableAdapter == Adapter(ConsumableAdapterAsks, ConsumableAdapterReads)

DatablocksAdapter ==
    Adapter([Keyed EXCEPT !.on["null"] = "skip", !.on["blank"] = "skip"],
            Reads(Server, "copy", <<Rule("imp", <<"video", "native">>, "banner", "banner")>>, Skip))

DeepintentAdapter ==
    Adapter([Each EXCEPT !.on["null"] = "skip", !.on["unfit"] = "skip", !.on["unsized"] = "skip",
                !.takes = {"banner"}],
            [Reads(Strict, "USD", <<Always("banner")>>, Skip) EXCEPT !.knownOnly = TRUE])

DmxAdapterAsks ==
    [Whole EXCEPT !.on["null"] = "skip", !.on["blank"] = "abort", !.on["unsized"] = "drop",
        !.on["unfit"] = "drop", !.takes = {"banner", "video"}, !.needs = {"uid"}, !.nothing = "send"]

DmxAdapterReads ==
    Reads(Input, "USD", <<Rule("imp", <<"banner", "video">>, "banner", NoType)>>, Skip)

DmxAdapter == Adapter(DmxAdapterAsks, DmxAdapterReads)

EmtvAdapter ==
    Adapter([Each EXCEPT !.on["null"] = "abort", !.on["blank"] = "drop", !.nothing = "report"],
            Reads(Strict, "copy",
                  <<Rule("imp", <<"banner", "video", "native">>, "banner", NoType)>>,
                  Fail(BadInput)))

EpomAdapter ==
    Adapter([Whole EXCEPT !.needs = {"ip"}],
            [Reads(ByClass, "USD",
                   <<Rule("imp", <<"banner", "video", "native">>, "banner", "banner")>>,
                   Skip) EXCEPT
                !.noSeats = BadInput, !.leadEmpty = BadInput])

GammaAdapterAsks ==
    [Each EXCEPT !.on["unfit"] = "skip", !.on["null"] = "skip", !.on["blank"] = "skip",
        !.takes = {"banner", "video"}]

GammaAdapterReads ==
    [Reads(Server, "USD", <<Always("banner")>>, Skip) EXCEPT !.partial = "skip"]

GammaAdapter == Adapter(GammaAdapterAsks, GammaAdapterReads)

GamoshiAdapter ==
    Adapter([Lead EXCEPT !.on["unfit"] = "skip", !.on["null"] = "abort", !.on["blank"] = "abort",
                !.takes = {"banner", "video"}],
            [Reads(Strict, "USD", <<Rule("imp", <<"video">>, "banner", "banner")>>, Skip) EXCEPT
                !.seats = "first"])

GoldbachAdapterAsks ==
    [Keyed EXCEPT !.on["null"] = "skip", !.on["blank"] = "skip"]

GoldbachAdapterReads ==
    [Reads(OnlyCreated, "copy",
           <<Rule("ext", <<"video", "native", "audio", "banner">>, "banner", NoType)>>,
           FailIfNone(BadInput)) EXCEPT
        !.noBids = BadServerResponse]

GoldbachAdapter == Adapter(GoldbachAdapterAsks, GoldbachAdapterReads)

ImprovedigitalAdapterAsks ==
    Each

ImprovedigitalAdapterReads ==
    [Reads(Strict, "filled",
           <<Rule("imp", <<>>, TryNext, NoType),
             Rule("mtype", <<"banner", "video", "native", "audio">>, NoType, TryNext),
             Rule("sole", <<"banner", "video", "audio", "native">>, NoType, NoType)>>,
           Fail(BadServerResponse)) EXCEPT
        !.seats = "only", !.noSeats = Empty, !.leadEmpty = Empty]

ImprovedigitalAdapter == Adapter(ImprovedigitalAdapterAsks, ImprovedigitalAdapterReads)

InfytvAdapter ==
    Adapter(Whole,
            [Reads([Strict EXCEPT ![503] = Empty], "copy", <<Always("video")>>, Skip) EXCEPT
                !.noSeats = BadServerResponse])

InsticatorAdapterAsks ==
    [Keyed EXCEPT !.on["null"] = "skip", !.on["video"] = "skip"]

InsticatorAdapterReads ==
    Reads(Strict, "filled", <<Rule("mtype", <<"video">>, "banner", "banner")>>, Skip)

InsticatorAdapter == Adapter(InsticatorAdapterAsks, InsticatorAdapterReads)

KargoAdapter ==
    Adapter(Whole,
            Reads(Server, "copy", <<Rule("ext", <<"video", "native">>, "banner", "banner")>>, Skip))

(* The adapters of the directory. *)
InAdapters4 ==
    {ColossusAdapter, ConnectadAdapter, ConsumableAdapter, DatablocksAdapter, DeepintentAdapter,
     DmxAdapter, EmtvAdapter, EpomAdapter, GammaAdapter, GamoshiAdapter, GoldbachAdapter,
     ImprovedigitalAdapter, InfytvAdapter, InsticatorAdapter, KargoAdapter}

-----------------------------------------------------------------------------

JixieAdapter ==
    Adapter(Whole,
            [Reads(Strict, "copy", <<Rule("markup", <<"video">>, "banner", "banner")>>, Skip) EXCEPT
                !.credits = "own id"])

KayzenAdapterAsks ==
    [Lead EXCEPT !.on["null"] = "abort"]

KayzenAdapterReads ==
    Reads(Strict, "USD",
          <<Rule("imp", <<"banner", "video", "native">>, "banner", "banner")>>,
          Skip)

KayzenAdapter == Adapter(KayzenAdapterAsks, KayzenAdapterReads)

KidozAdapterAsks ==
    [Each EXCEPT !.on["unfit"] = "skip", !.on["unsized"] = "skip", !.on["null"] = "skip",
        !.on["blank"] = "skip", !.takes = {"banner", "video"}]

KidozAdapterReads ==
    Reads([Strict EXCEPT ![503] = Empty], "USD",
          <<ByImp(<<"banner", "video", "native", "audio">>)>>,
          FailIfNone(BadServerResponse))

KidozAdapter == Adapter(KidozAdapterAsks, KidozAdapterReads)

KoblerAdapter ==
    Adapter([Lead EXCEPT !.on["null"] = "note"],
            [Reads(Server, "copy",
                   <<Rule("ext", <<"banner", "video", "native", "audio">>, "banner", "banner")>>,
                   Skip) EXCEPT
                !.blankBody = "always empty"])

LunamediaAdapterAsks ==
    [Keyed EXCEPT !.on["null"] = "skip", !.on["blank"] = "skip", !.on["unsized"] = "skip"]

LunamediaAdapterReads ==
    [Reads(Server, "USD", <<Rule("imp", <<"video">>, "banner", "banner")>>, Skip) EXCEPT
        !.seats = "only", !.noSeats = BadServerResponse]

LunamediaAdapter == Adapter(LunamediaAdapterAsks, LunamediaAdapterReads)

MadvertiseAdapter ==
    Adapter([Whole EXCEPT !.on["null"] = "abort", !.on["blank"] = "abort", !.oneKey = TRUE],
            Reads(Server, "copy", <<Rule("ext", <<"video">>, "banner", "banner")>>, Skip))

MedianetAdapter ==
    Adapter(Whole,
            Reads(Strict, "USD",
                  <<ByMType(<<"banner", "video", "native">>)>>,
                  FailIfNone(BadServerResponse)))

MgidAdapterAsks ==
    [Whole EXCEPT !.on["null"] = "abort", !.on["blank"] = "excuse"]

MgidAdapterReads ==
    Reads(Strict, "copy",
          <<Rule("ext", <<"banner", "video", "native">>, "banner", "banner")>>,
          Skip)

MgidAdapter == Adapter(MgidAdapterAsks, MgidAdapterReads)

MinutemediaAdapterAsks ==
    [Lead EXCEPT !.on["null"] = "abort"]

MinutemediaAdapterReads ==
    Reads(Strict, "filled", <<ByMType(<<"banner", "video">>)>>, Skip)

MinutemediaAdapter == Adapter(MinutemediaAdapterAsks, MinutemediaAdapterReads)

(* The adapters of the directory. *)
InAdapters5 ==
    {JixieAdapter, KayzenAdapter, KidozAdapter, KoblerAdapter, LunamediaAdapter, MadvertiseAdapter,
     MedianetAdapter, MgidAdapter, MinutemediaAdapter}

=============================================================================
