--------------------------- MODULE Adapters6to13 ----------------------------
(***************************************************************************)
(* The policies of the adapters in the directories adapters6 to adapters13 *)
(* of src/rust/crates/adapters/src: what each one does in make_requests    *)
(* and in make_bids.                                                       *)
(***************************************************************************)
EXTENDS AdapterReplies

-----------------------------------------------------------------------------
(* adapters6 *)

AaxAdapter ==
    Adapter(Whole,
            Reads(Strict, "USD",
                  <<Rule("ext", <<"banner", "native", "video">>, TryNext, TryNext),
                    Rule("sole", <<"banner", "native", "video">>, NoType, NoType)>>,
                  Skip))

AceexAdapter ==
    Adapter([Lead EXCEPT !.on["null"] = "abort", !.on["blank"] = "abort"],
            [Reads(Input, "USD", <<ImpOrBanner>>, Skip) EXCEPT !.noSeats = BadServerResponse])

AcuityadsAdapter ==
    Adapter([Lead EXCEPT !.on["null"] = "abort"],
            [Reads(Input, "USD", <<ImpOrBanner>>, Skip) EXCEPT !.noSeats = BadServerResponse])

AdagioAdapter ==
    Adapter(Whole,
            [Reads(Strict, "copy", <<ByMType(<<"banner", "video", "native">>)>>, Skip) EXCEPT
                !.noSeats = BadServerResponse])

AdelementAdapter ==
    Adapter([Lead EXCEPT !.on["null"] = "abort", !.on["blank"] = "abort"],
            [Reads(Strict, "copy", <<ByMType(<<"banner", "video", "audio", "native">>)>>, Skip) EXCEPT
                !.noSeats = BadServerResponse])

AdfAdapterAsks ==
    [Whole EXCEPT !.on["blank"] = "skip", !.on["null"] = "skip"]

AdfAdapterReads ==
    Reads(Strict, "filled",
          <<ByExt(<<"banner", "video", "native", "audio">>)>>,
          FailIfNone(BadServerResponse))

AdfAdapter == Adapter(AdfAdapterAsks, AdfAdapterReads)

AdgenerationAdapterAsks ==
    [Each EXCEPT !.on["null"] = "skip", !.on["blank"] = "skip"]

AdgenerationAdapterReads ==
    [Reads(Strict, "asked", <<Always("banner")>>, Skip) EXCEPT
        !.seats = "first bid", !.knownOnly = TRUE, !.noBids = Empty]

AdgenerationAdapter == Adapter(AdgenerationAdapterAsks, AdgenerationAdapterReads)

AdheseAdapterAsks ==
    Lead

AdheseAdapterReads ==
    [Reads(Strict, "filled",
           <<Rule("lead sole", <<"banner", "video", "native", "audio">>, NoType, NoType)>>,
           Fail(BadServerResponse)) EXCEPT
        !.noSeats = BadServerResponse, !.leadEmpty = BadServerResponse, !.seats = "first bid"]

AdheseAdapter == Adapter(AdheseAdapterAsks, AdheseAdapterReads)

AdkernelAdnAdapterAsks ==
    [Keyed EXCEPT !.on["blank"] = "skip", !.on["unfit"] = "skip", !.on["unsized"] = "skip",
        !.on["null"] = "skip", !.takes = {"banner", "video"}]

AdkernelAdnAdapterReads ==
    [Reads(Server, "USD", <<Rule("imp", <<"banner">>, "video", "video")>>, Skip) EXCEPT
        !.seats = "only", !.noSeats = BadServerResponse]

AdkernelAdnAdapter == Adapter(AdkernelAdnAdapterAsks, AdkernelAdnAdapterReads)

AdmaticAdapter ==
    Adapter([Each EXCEPT !.on["null"] = "skip"],
            Reads(Strict, "filled", <<ByImp(<<"banner", "video", "native">>)>>, Fail(BadServerResponse)))

AdnuntiusAdapterAsks ==
    [Keyed EXCEPT !.on["null"] = "abort", !.bans = {"video"}]

AdnuntiusAdapterReads ==
    [Reads(Strict, "filled", <<Rule("ext", <<"native">>, "banner", "banner")>>, Skip) EXCEPT
        !.knownOnly = TRUE, !.rereads = TRUE, !.noBids = Empty]

AdnuntiusAdapter == Adapter(AdnuntiusAdapterAsks, AdnuntiusAdapterReads)

AdotAdapter == Adapter(Lead, Reads(Strict, "USD", <<ByExt(<<"banner", "video", "native">>)>>, Skip))

AdponeAdapter ==
    Adapter([Lead EXCEPT !.on["null"] = "note"],
            Reads(Strict, "USD", <<Always("banner")>>, Skip))

AdprimeAdapter ==
    Adapter([Each EXCEPT !.on["null"] = "abort"],
            Reads(Strict, "USD", <<ByMType(<<"banner", "video", "native">>)>>, Skip))

AdqueryAdapterAsks ==
    [Each EXCEPT !.on["null"] = "skip"]

AdqueryAdapterReads ==
    [Reads(Strict, "copy or PLN", <<ByExt(<<"banner">>)>>, Fail(BadServerResponse)) EXCEPT
        !.seats = "first bid", !.noBids = Empty]

AdqueryAdapter == Adapter(AdqueryAdapterAsks, AdqueryAdapterReads)

AdrinoAdapter == Adapter(Whole, Reads(Strict, "copy", <<Always("native")>>, Skip))

AdtargetAdapter ==
    Adapter([Keyed EXCEPT !.on["unfit"] = "skip", !.on["null"] = "skip", !.on["blank"] = "skip",
                !.takes = {"banner", "video"}],
            Reads(Strict, "USD", <<Rule("imp", <<"video">>, "banner", NoType)>>, Skip))

AdtonosAdapter ==
    Adapter([Lead EXCEPT !.on["null"] = "abort", !.on["blank"] = "abort"],
            Reads(Strict, "filled",
                  <<Rule("mtype", <<"audio", "video", "banner", "native">>, NoType, TryNext),
                    ByImp(<<"audio", "video">>)>>,
                  FailIfNone(BadInput)))

AdtrgtmeAdapter ==
    Adapter([Each EXCEPT !.on["null"] = "skip", !.on["blank"] = "skip"],
            [Reads(Input, "copy", <<ByImp(<<"banner">>)>>, Fail(BadInput)) EXCEPT
                !.noSeats = BadServerResponse])

AduptechAdapter == Adapter(Whole, Reads(Strict, "copy", <<ByMType(<<"native", "banner">>)>>, Skip))

(* The adapters of the directory. *)
InAdapters6 ==
    {AaxAdapter, AceexAdapter, AcuityadsAdapter, AdagioAdapter, AdelementAdapter, AdfAdapter,
     AdgenerationAdapter, AdheseAdapter, AdkernelAdnAdapter, AdmaticAdapter, AdnuntiusAdapter,
     AdotAdapter, AdponeAdapter, AdprimeAdapter, AdqueryAdapter, AdrinoAdapter, AdtargetAdapter,
     AdtonosAdapter, AdtrgtmeAdapter, AduptechAdapter}

-----------------------------------------------------------------------------
(* adapters7 *)

AdvangelistsAdapter ==
    Adapter([Keyed EXCEPT !.on["null"] = "skip", !.on["blank"] = "skip", !.on["unsized"] = "skip"],
            [Reads(Server, "USD", <<Rule("imp", <<"video">>, "banner", "banner")>>, Skip) EXCEPT
                !.seats = "only", !.noSeats = BadServerResponse])

AdverxoAdapter ==
    Adapter([Each EXCEPT !.on["null"] = "skip", !.on["blank"] = "skip"],
            [Reads(Server, "copy", <<ByMType(<<"banner", "video", "native">>)>>, Fail(BadServerResponse)) EXCEPT
                !.partial = BadServerResponse, !.partialOf = {"native"}])

AdviewAdapter ==
    Adapter([Each EXCEPT !.on["null"] = "skip"],
            Reads(Strict, "USD", <<ByMType(<<"banner", "video", "native">>)>>, Skip))

AdxcgAdapter ==
    Adapter(Whole,
            Reads(Strict, "copy", <<ByMType(<<"banner", "video", "native", "audio">>)>>, Skip))

AdyoulikeAdapter ==
    Adapter([Whole EXCEPT !.on["null"] = "abort", !.on["blank"] = "abort"],
            Reads(Strict, "USD",
                  <<Rule("imp", <<"banner", "video", "native">>, "banner", "banner")>>,
                  Skip))

AfrontAdapter ==
    Adapter([Lead EXCEPT !.on["null"] = "abort"],
            [Reads(Strict, "USD", <<ImpOrBanner>>, Skip) EXCEPT !.noSeats = BadServerResponse,
                !.seats = "first"])

AidemAdapter ==
    Adapter([Lead EXCEPT !.on["null"] = "abort"],
            [Reads(Input, "USD", <<ByMType(<<"banner", "video">>)>>, Skip) EXCEPT
                !.noSeats = BadServerResponse])

AjaAdapter ==
    Adapter([Keyed EXCEPT !.on["null"] = "skip"],
            Reads(Strict, "filled", <<ByImp(<<"banner", "video">>)>>, Skip))

AkceloAdapter ==
    Adapter([Lead EXCEPT !.on["null"] = "abort", !.on["blank"] = "abort"],
            Reads(Strict, "USD",
                  <<Rule("mtype", <<"banner", "video", "native">>, NoType, TryNext),
                    ByExt(<<"banner", "video", "native", "audio">>)>>,
                  Fail(BadServerResponse)))

AlgorixAdapterAsks ==
    [Lead EXCEPT !.on["null"] = "abort"]

AlgorixAdapterReads ==
    Reads(Strict, "USD",
          <<Rule("ext", <<"banner", "video", "native">>, TryNext, TryNext),
            Rule("sole", <<"banner", "native", "video">>, NoType, NoType)>>,
          FailIfNone(BadServerResponse))

AlgorixAdapter == Adapter(AlgorixAdapterAsks, AlgorixAdapterReads)

AlkimiAdapterAsks ==
    [Whole EXCEPT !.on["null"] = "abort"]

AlkimiAdapterReads ==
    [Reads(Strict, "USD", <<ByImp(<<"banner", "video", "audio">>)>>, Skip) EXCEPT
        !.noSeats = BadServerResponse]

AlkimiAdapter == Adapter(AlkimiAdapterAsks, AlkimiAdapterReads)

AllianceGravityAdapterAsks ==
    [Whole EXCEPT !.on["null"] = "abort"]

AllianceGravityAdapterReads ==
    [Reads(Strict, "filled", <<ByExt(<<"banner", "video", "native", "audio">>)>>, Skip) EXCEPT
        !.noBids = Empty]

AllianceGravityAdapter == Adapter(AllianceGravityAdapterAsks, AllianceGravityAdapterReads)

AmxAdapterAsks ==
    Whole

AmxAdapterReads ==
    Reads(Strict, "USD",
          <<Rule("ext", <<"video", "native", "banner">>, NoType, "banner")>>,
          FailIfNone(BadServerResponse))

AmxAdapter == Adapter(AmxAdapterAsks, AmxAdapterReads)

ApacdexAdapter ==
    Adapter(Whole,
            [Reads(Strict, "copy", <<ByExt(<<"banner", "video", "audio", "native">>)>>, Skip) EXCEPT
                !.noSeats = Empty])

AppushAdapterAsks ==
    [Each EXCEPT !.on["null"] = "stop"]

AppushAdapterReads ==
    Reads(Server, "copy", <<ByImp(<<"banner", "video", "native">>)>>, Fail(BadInput))

AppushAdapter == Adapter(AppushAdapterAsks, AppushAdapterReads)

AsoAdapter ==
    Adapter([Each EXCEPT !.on["null"] = "skip"],
            Reads(Strict, "copy", <<ByExt(<<"banner", "video", "audio", "native">>)>>, Skip))

AudienceNetworkAdapter7Asks ==
    [Each EXCEPT !.on["null"] = "skip", !.on["blank"] = "skip", !.needs = {"uid", "nosite"}]

AudienceNetworkAdapter7Reads ==
    [Reads(Input, "USD",
           <<Rule("imp", <<"banner", "video", "audio", "native">>, "banner", "banner")>>,
           Skip) EXCEPT
        !.partial = "skip"]

AudienceNetworkAdapter7 == Adapter(AudienceNetworkAdapter7Asks, AudienceNetworkAdapter7Reads)

AutomatadAdapter == Adapter(Whole, Reads(Strict, "USD", <<ImpOrBanner>>, Skip))

AvocetAdapter ==
    Adapter(Whole,
            Reads(Server, "USD",
                  <<Rule("ext", <<"video", "banner">>, NoType, "banner")>>,
                  Fail(BadServerResponse)))

AxisAdapter ==
    Adapter([Each EXCEPT !.on["null"] = "skip"],
            Reads(Server, "copy", <<ByImp(<<"banner", "video", "native">>)>>, Fail(BadInput)))

(* The adapters of the directory. *)
InAdapters7 ==
    {AdvangelistsAdapter, AdverxoAdapter, AdviewAdapter, AdxcgAdapter, AdyoulikeAdapter,
     AfrontAdapter, AidemAdapter, AjaAdapter, AkceloAdapter, AlgorixAdapter, AlkimiAdapter,
     AllianceGravityAdapter, AmxAdapter, ApacdexAdapter, AppushAdapter, AsoAdapter,
     AudienceNetworkAdapter7, AutomatadAdapter, AvocetAdapter, AxisAdapter}

-----------------------------------------------------------------------------
(* adapters8 *)

AxonixAdapter ==
    Adapter([Lead EXCEPT !.on["null"] = "abort"],
            Reads(Server, "copy", <<Rule("imp", <<"native", "video">>, "banner", "banner")>>, Skip))

BeintooAdapterAsks ==
    [Whole EXCEPT !.on["null"] = "abort", !.on["blank"] = "abort", !.on["unsized"] = "abort",
        !.on["unfit"] = "abort", !.takes = {"banner"}]

BeintooAdapterReads ==
    [Reads(Server, "USD", <<Always("banner")>>, Skip) EXCEPT !.credits = "own id"]

BeintooAdapter == Adapter(BeintooAdapterAsks, BeintooAdapterReads)

BematterfullAdapterAsks ==
    [Each EXCEPT !.on["null"] = "skip"]

BematterfullAdapterReads ==
    [Reads([Strict EXCEPT ![503] = BadInput], "USD",
           <<ByExt(<<"banner", "video", "native", "audio">>)>>,
           Skip) EXCEPT
        !.noSeats = BadServerResponse]

BematterfullAdapter == Adapter(BematterfullAdapterAsks, BematterfullAdapterReads)

BeopAdapter ==
    Adapter([Lead EXCEPT !.on["null"] = "abort"],
            [Reads([AnyStatus EXCEPT ![503] = BadInput, ![400] = BadServerResponse], "USD",
                   <<ByMType(<<"banner", "video">>)>>,
                   FailIfNone(BadServerResponse)) EXCEPT
                !.noSeats = BadServerResponse, !.seats = "first"])

BetweenAdapterAsks ==
    [Whole EXCEPT !.on["null"] = "skip", !.on["blank"] = "skip", !.on["unsized"] = "skip",
        !.on["unfit"] = "skip", !.takes = {"banner"}]

BetweenAdapterReads ==
    Reads(Server, "USD", <<Always("banner")>>, Skip)

BetweenAdapter == Adapter(BetweenAdapterAsks, BetweenAdapterReads)

BeyondmediaAdapter ==
    Adapter([Each EXCEPT !.on["null"] = "stop"],
            Reads(Server, "copy", <<ByImp(<<"banner", "video", "native">>)>>, Fail(BadInput)))

BidmachineAdapterAsks ==
    [Each EXCEPT !.on["unsized"] = "skip", !.on["null"] = "skip"]

BidmachineAdapterReads ==
    Reads([Strict EXCEPT ![503] = BadInput], "USD",
          <<Rule("imp", <<"banner", "video">>, "banner", NoType)>>,
          Skip)

BidmachineAdapter == Adapter(BidmachineAdapterAsks, BidmachineAdapterReads)

BidmaticAdapterAsks ==
    [Keyed EXCEPT !.on["null"] = "skip", !.on["blank"] = "skip"]

BidmaticAdapterReads ==
    Reads(Strict, "USD",
          <<Rule("imp", <<"video", "banner", "audio", "native">>, "banner", NoType)>>,
          Skip)

BidmaticAdapter == Adapter(BidmaticAdapterAsks, BidmaticAdapterReads)

BidmyadzAdapter ==
    Adapter([Whole EXCEPT !.oneImp = TRUE, !.needs = {"ip"}],
            [Reads(Strict, "USD",
                   <<ByExt(<<"banner", "video", "native", "audio">>)>>,
                   Fail(BadServerResponse)) EXCEPT
                !.noSeats = BadServerResponse, !.leadEmpty = BadServerResponse, !.seats = "first bid"])

BidscubeAdapter ==
    Adapter([Each EXCEPT !.on["null"] = "skip"],
            Reads(Strict, "USD", <<Rule("ext", <<"banner", "video", "native">>, "banner", NoType)>>, Skip))

BidstackAdapter ==
    Adapter([Lead EXCEPT !.on["null"] = "abort"],
            Reads(Strict, "copy", <<Always("video")>>, Skip))

BidtheatreAdapter ==
    Adapter(Whole,
            Reads(Strict, "copy", <<ByExt(<<"banner", "video", "native", "audio">>)>>, Skip))

BigoadAdapter ==
    Adapter([Lead EXCEPT !.on["null"] = "abort"],
            [Reads(Strict, "USD", <<ByMType(<<"banner", "video", "native">>)>>, FailIfNone(BadInput)) EXCEPT
                !.noSeats = BadServerResponse, !.seats = "first"])

BlastoAdapter ==
    Adapter([Lead EXCEPT !.on["null"] = "abort"],
            [Reads(Strict, "USD", <<Rule("imp", <<"video", "native">>, "banner", "banner")>>, Skip) EXCEPT
                !.noSeats = BadServerResponse, !.seats = "first"])

BliinkAdapter ==
    Adapter(Whole,
            [Reads(Strict, "copy",
                   <<Rule("sole", <<"banner", "native", "video">>, NoType, NoType)>>,
                   FailIfNone(BadServerResponse)) EXCEPT
                !.noSeats = BadServerResponse])

BlisAdapter ==
    Adapter([Lead EXCEPT !.on["null"] = "abort"],
            Reads(Strict, "copy", <<ByMType(<<"banner", "video", "native">>)>>, Skip))

BlueAdapter == Adapter(Whole, Reads(Strict, "copy", <<Always("banner")>>, Skip))

BlueseaAdapter ==
    Adapter([Whole EXCEPT !.split = "echo", !.on["null"] = "skip", !.on["blank"] = "skip"],
            Reads(Strict, "filled", <<ByExt(<<"banner", "native", "video">>)>>, Skip))

BmtmAdapterAsks ==
    [Each EXCEPT !.on["unfit"] = "skip", !.on["null"] = "skip", !.on["blank"] = "skip",
        !.takes = {"banner", "video"}]

BmtmAdapterReads ==
    Reads(Strict, "USD", <<Rule("imp", <<"banner", "video">>, "banner", "banner")>>, Skip)

BmtmAdapter == Adapter(BmtmAdapterAsks, BmtmAdapterReads)

CompassAdapter ==
    Adapter([Each EXCEPT !.on["null"] = "stop"],
            Reads(Server, "copy",
                  <<Rule("imp", <<"video", "native", "audio">>, "banner", NoType)>>,
                  Fail(BadInput)))

(* The adapters of the directory. *)
InAdapters8 ==
    {AxonixAdapter, BeintooAdapter, BematterfullAdapter, BeopAdapter, BetweenAdapter,
     BeyondmediaAdapter, BidmachineAdapter, BidmaticAdapter, BidmyadzAdapter, BidscubeAdapter,
     BidstackAdapter, BidtheatreAdapter, BigoadAdapter, BlastoAdapter, BliinkAdapter, BlisAdapter,
     BlueAdapter, BlueseaAdapter, BmtmAdapter, CompassAdapter}

-----------------------------------------------------------------------------
(* adapters9 *)

BoldwinAdapter ==
    Adapter(Each,
            Reads(Server, "filled", <<ByMType(<<"banner", "video", "native">>)>>, Fail(BadServerResponse)))

BoldwinRapidAdapter ==
    Adapter(Each,
            Reads(Strict, "filled", <<ByMType(<<"banner", "video", "native">>)>>, Fail(BadServerResponse)))

BraveAdapter ==
    Adapter([Lead EXCEPT !.on["blank"] = "abort", !.on["null"] = "abort"],
            [Reads([Strict EXCEPT ![503] = BadInput], "USD", <<ImpOrBanner>>, Skip) EXCEPT
                !.noSeats = BadServerResponse, !.seats = "first"])

BwxAdapter ==
    Adapter([Each EXCEPT !.on["blank"] = "skip", !.on["null"] = "skip"],
            [Reads(Strict, "USD", <<ByMType(<<"banner", "video", "native">>)>>, Skip) EXCEPT
                !.noSeats = BadServerResponse])

CadentApertureMxAdapterAsks ==
    [Whole EXCEPT !.on["null"] = "abort", !.on["blank"] = "abort", !.on["unsized"] = "abort",
        !.on["video"] = "abort", !.on["unfit"] = "abort", !.takes = {"banner", "video"}]

CadentApertureMxAdapterReads ==
    [Reads(Server, "USD", <<Rule("markup", <<"video">>, "banner", "banner")>>, Skip) EXCEPT
        !.credits = "own id"]

CadentApertureMxAdapter == Adapter(CadentApertureMxAdapterAsks, CadentApertureMxAdapterReads)

CcxAdapter == Adapter(Whole, Reads(Strict, "copy", <<Always("banner")>>, Skip))

ClydoAdapter ==
    Adapter([Each EXCEPT !.on["blank"] = "skip", !.on["null"] = "skip", !.needs = {"device"}],
            Reads(Strict, "filled",
                  <<Rule("imp", <<"audio", "video", "native", "banner">>, NoType, "banner")>>,
                  Fail(BadInput)))

CointrafficAdapter == Adapter(Whole, Reads(Strict, "filled", <<Always("banner")>>, Skip))

(* The adapters of the directory. *)
InAdapters9 ==
    {BoldwinAdapter, BoldwinRapidAdapter, BraveAdapter, BwxAdapter, CadentApertureMxAdapter,
     CcxAdapter, ClydoAdapter, CointrafficAdapter}

-----------------------------------------------------------------------------
(* adapters10 *)

DriftpixelAdapter ==
    Adapter([Each EXCEPT !.on["blank"] = "skip", !.on["null"] = "skip"],
            [Reads(Strict, "USD",
                   <<ByMType(<<"banner", "video", "native">>)>>,
                   FailIfNone(BadServerResponse)) EXCEPT
                !.noSeats = BadServerResponse])

ElementaltvAdapterAsks ==
    [Each EXCEPT !.on["null"] = "skip", !.on["blank"] = "skip"]

ElementaltvAdapterReads ==
    [Reads(Strict, "USD",
           <<ByImp(<<"banner", "video", "audio", "native">>)>>,
           Fail(BadServerResponse)) EXCEPT
        !.partial = BadServerResponse, !.partialOf = {"video"}]

ElementaltvAdapter == Adapter(ElementaltvAdapterAsks, ElementaltvAdapterReads)

EscalaxAdapter ==
    Adapter(Lead,
            [Reads(Strict, "USD", <<ByMType(<<"banner", "video", "native">>)>>, Fail(BadInput)) EXCEPT
                !.noSeats = BadServerResponse])

EvolutionAdapter ==
    Adapter(Whole,
            [Reads([Strict EXCEPT ![503] = Empty], "USD",
                   <<Rule("ext", <<"video", "native">>, "banner", "banner")>>,
                   Skip) EXCEPT
                !.noSeats = BadServerResponse, !.seats = "first"])

FreewheelsspAdapter ==
    Adapter([Whole EXCEPT !.on["null"] = "abort"],
            Reads(Server, "copy or blank", <<Always("video")>>, Skip))

FrvradnAdapter ==
    Adapter([Each EXCEPT !.on["blank"] = "skip", !.on["null"] = "skip"],
            [Reads(Strict, "filled",
                   <<ByExt(<<"banner", "video", "native">>)>>,
                   FailIfNone(BadServerResponse)) EXCEPT
                !.blankBody = "empty"])

FwsspAdapter ==
    Adapter([Whole EXCEPT !.on["null"] = "abort"],
            [Reads(Strict, "copy or blank", <<Always("video")>>, Skip) EXCEPT !.blankBody = "empty"])

GlobalsunAdapter ==
    Adapter([Each EXCEPT !.on["blank"] = "abort", !.on["null"] = "abort"],
            Reads(Strict, "filled", <<ByImp(<<"banner", "video", "native">>)>>, Fail(BadInput)))

HuaweiadsAdapter == Adapter(Whole, Reads(Strict, "USD", <<ImpOrBanner>>, Skip))

ImdsAdapter ==
    Adapter([Whole EXCEPT !.on["blank"] = "fault", !.on["null"] = "fault"],
            [Reads(Strict, "USD", <<ImpOrBanner>>, Skip) EXCEPT !.keeps = {"banner", "video"}])

(* The adapters of the directory. *)
InAdapters10 ==
    {DriftpixelAdapter, ElementaltvAdapter, EscalaxAdapter, EvolutionAdapter, FreewheelsspAdapter,
     FrvradnAdapter, FwsspAdapter, GlobalsunAdapter, HuaweiadsAdapter, ImdsAdapter}

-----------------------------------------------------------------------------
(* adapters11 *)

LogicadAdapter ==
    Adapter([Keyed EXCEPT !.on["blank"] = "skip", !.on["null"] = "skip"],
            [Reads(Server, "filled", <<Always("banner")>>, Skip) EXCEPT !.seats = "only",
                !.noSeats = BadServerResponse])

LoyalAdapter ==
    Adapter(Each,
            Reads(Strict, "filled", <<ByExt(<<"banner", "video", "native">>)>>, Fail(BadServerResponse)))

MabidderAdapter ==
    Adapter(Whole,
            [Reads(Strict, "filled",
                   <<Rule("ext", <<"video", "native", "audio">>, "banner", "banner")>>,
                   Skip) EXCEPT
                !.noBids = Empty])

MadsenseAdapter ==
    Adapter([Whole EXCEPT !.split = "videosLast", !.on["unfit"] = "drop", !.takes = {"banner", "video"}],
            Reads(Strict, "filled", <<Rule("ext", <<"video", "native">>, "banner", "banner")>>, Skip))

MarsmediaAdapter ==
    Adapter([Lead EXCEPT !.on["blank"] = "abort", !.on["unsized"] = "abort", !.on["unfit"] = "excuse",
                !.on["null"] = "abort", !.takes = {"banner", "video"}],
            Reads(Strict, "USD", <<Rule("imp", <<"video">>, "banner", "banner")>>, Skip))

MediafuseAdapter ==
    Adapter([Whole EXCEPT !.split = "chunks", !.on["null"] = "skip", !.oneKey = TRUE],
            Reads(Strict, "USD", <<ImpOrBanner>>, Skip))

MediagoAdapter ==
    Adapter([Lead EXCEPT !.on["blank"] = "abort", !.on["null"] = "abort"],
            Reads(Strict, "filled",
                  <<Rule("mtype", <<"banner", "native">>, TryNext, TryNext),
                    ByImp(<<"banner", "native">>)>>,
                  FailIfNone(BadServerResponse)))

(* The adapters of the directory. *)
InAdapters11 ==
    {LogicadAdapter, LoyalAdapter, MabidderAdapter, MadsenseAdapter, MarsmediaAdapter,
     MediafuseAdapter, MediagoAdapter}

-----------------------------------------------------------------------------
(* adapters12 *)

OguryAdapterAsks ==
    [Whole EXCEPT !.on["blank"] = "drop", !.on["null"] = "drop", !.nothing = "all"]

OguryAdapterReads ==
    Reads(Strict, "copy",
          <<ByMType(<<"banner", "video", "audio", "native">>)>>,
          Fail(BadServerResponse))

OguryAdapter == Adapter(OguryAdapterAsks, OguryAdapterReads)

OmsAdapter == Adapter(Whole, Reads(Strict, "USD", <<Rule("mtype", <<"video">>, "banner", "banner")>>, Skip))

OpenwebAdapter ==
    Adapter([Lead EXCEPT !.on["blank"] = "abort", !.on["null"] = "abort"],
            Reads(Strict, "filled", <<ByMType(<<"banner", "video">>)>>, FailIfNone(BadServerResponse)))

OperaadsAdapterAsks ==
    [Whole EXCEPT !.split = "perFormat", !.formats = <<"native", "video", "banner">>,
        !.on["unfit"] = "drop", !.on["unsized"] = "skip", !.on["native"] = "skip",
        !.takes = {"native", "video", "banner"}, !.needs = {"os"}]

OperaadsAdapterReads ==
    [Reads(Strict, "USD",
           <<Rule("asked", <<"banner", "video", "native", "audio">>, NoType, NoType)>>,
           Skip) EXCEPT
        !.dropsUnpriced = TRUE]

OperaadsAdapter == Adapter(OperaadsAdapterAsks, OperaadsAdapterReads)

OptidigitalAdapter == Adapter(Whole, Reads(Strict, "copy", <<Always("banner")>>, Skip))

OrakiAdapter ==
    Adapter(Each,
            Reads(Strict, "filled", <<ByMType(<<"banner", "video", "native">>)>>, Fail(BadServerResponse)))

OrbidderAdapter ==
    Adapter(Whole,
            Reads(ByClass, "filled", <<ByExt(<<"banner", "video", "audio", "native">>)>>, Fail(BadInput)))

OwnadxAdapter ==
    Adapter(Keyed,
            [Reads(Strict, "USD",
                   <<ByExt(<<"banner", "video", "audio", "native">>)>>,
                   Fail(BadServerResponse)) EXCEPT
                !.noSeats = BadServerResponse, !.leadEmpty = BadServerResponse])

PangleAdapter12Asks ==
    [Each EXCEPT !.on["unfit"] = "skip", !.on["blank"] = "skip", !.on["null"] = "skip",
        !.takes = {"banner", "native"}, !.fullscreen = {"video"}]

PangleAdapter12Reads ==
    Reads(Strict, "filled",
          <<ByExt(<<"banner", "video", "native">>)>>,
          FailIfNone(BadServerResponse))

PangleAdapter12 == Adapter(PangleAdapter12Asks, PangleAdapter12Reads)

PgamsspAdapter ==
    Adapter(Each,
            Reads(Strict, "filled",
                  <<ByExt(<<"banner", "video", "audio", "native">>)>>,
                  Fail(BadServerResponse)))

PlaydigoAdapter ==
    Adapter(Each,
            Reads(Strict, "filled",
                  <<ByMType(<<"banner", "video", "audio", "native">>)>>,
                  Fail(BadServerResponse)))

(* The adapters of the directory. *)
InAdapters12 ==
    {OguryAdapter, OmsAdapter, OpenwebAdapter, OperaadsAdapter, OptidigitalAdapter, OrakiAdapter,
     OrbidderAdapter, OwnadxAdapter, PangleAdapter12, PgamsspAdapter, PlaydigoAdapter}

-----------------------------------------------------------------------------
(* adapters13 *)

RoulaxAdapter ==
    Adapter(Lead,
            Reads(Server, "filled", <<ByMType(<<"banner", "video", "native">>)>>, Fail(BadServerResponse)))

SaLunamediaAdapter ==
    Adapter(Whole,
            [Reads([Strict EXCEPT ![503] = BadInput], "USD",
                   <<ByExt(<<"banner", "video", "native">>)>>,
                   Fail(BadServerResponse)) EXCEPT
                !.noSeats = BadServerResponse, !.leadEmpty = BadServerResponse, !.seats = "first bid"])

SeedingAllianceAdapter13 ==
    Adapter(Whole,
            Reads(Strict, "filled", <<ByExt(<<"banner", "video", "native">>)>>, Fail(BadServerResponse)))

SeedtagAdapter ==
    Adapter(Whole,
            Reads(Strict, "USD", <<ByMType(<<"banner", "video">>)>>, FailIfNone(BadServerResponse)))

(* The adapters of the directory. *)
InAdapters13 ==
    {RoulaxAdapter, SaLunamediaAdapter, SeedingAllianceAdapter13, SeedtagAdapter}

=============================================================================
