------------------------------ MODULE MCAdapter ------------------------------
(***************************************************************************)
(* Three parts of the off-chain side that share no state, model-checked in *)
(* one run: a behaviour belongs to one part, and the others stay in one    *)
(* initial state.                                                          *)
(***************************************************************************)
EXTENDS MCIdls, AdapterData, TransferFees, Capture

VARIABLE part   \* "fees", "captures" or "adapter"

-----------------------------------------------------------------------------
\* The locks: two captured revisions, the first frozen in two ways and listed
\* once with the IDLs of the second.

LockOf(status, revision, v, binary) ==
    [status |-> status, complete |-> TRUE, revision |-> revision,
     programs |-> << [name |-> "dusk", id |-> DuskId, idl |-> <<"dusk", ToString(v)>>,
                      binary |-> binary],
                     [name |-> "leverage_delegate", id |-> DelegateId,
                      idl |-> <<"delegate", ToString(v)>>, binary |-> <<"delegate.so">>] >>]

MCLocks ==
    [L0 |-> LockOf("captured", "r0", 0, <<"dusk.so">>), L1 |-> LockOf("captured", "r1", 1, <<"dusk.so">>),
     F0 |-> LockOf("frozen", "r0", 0, <<"dusk.so">>), F1 |-> LockOf("frozen", "r1", 1, <<"dusk.so">>),
     D0 |-> LockOf("frozen", "r0", 0, <<>>), X0 |-> LockOf("frozen", "r0", 1, <<"dusk.so">>)]
MCIdlsOf == [l \in DOMAIN MCLocks |-> Idl(IF l \in {"L1", "F1", "X0"} THEN 1 ELSE 0)]

MCEdits ==
    DOMAIN InvalidCases \cup
    {"schema", "extra_account", "optional_account", "extra_byte", "not_hex",
     "remaining_account", "hook_account", "hook_remaining"}

MCOnCurve(digest, program) ==
    (digest[1] + digest[Len(digest)] + Len(digest)) % 2 = 1

-----------------------------------------------------------------------------
\* Calls

EncodedKeys ==
    InstructionKeys \cup {<<"dusk", "before_take_profit">>, <<"dusk", "initialize_market">>}

\* A canonical value of each kind, and values that some check must refuse.
Sample(kind) ==
    CASE kind \in {"u8", "u16"} -> Number(5) [] kind = "u64" -> Decimal(70)
      [] kind = "bool" -> Bool(TRUE) [] kind = "pubkey" -> Key(K(9)) [] kind = "bytes" -> Hex(<<4, 0, 7>>)
      [] kind = "lane" -> Word("buyback") [] kind = "source" -> Word("interest")
Oddities ==
    {Number(0), Number(63), Number(64), Number(-1), Decimal(0), Decimal(64), Decimal(8^8), Decimal(-1),
     OddDecimal(5), Bool(FALSE), Key(K(9) \o <<0>>), Hex(<<>>), OddHex(<<4>>), Word("fee"), Word("Fee")}

Encodings ==
    UNION {LET name == key[2]
               fields == IF name \in DOMAIN Fields THEN Fields[name] ELSE <<>>
               sound == [f \in {fields[i][1] : i \in DOMAIN fields} |->
                            Sample(fields[CHOOSE i \in DOMAIN fields : fields[i][1] = f][2])]
           IN  {[kind |-> "encode", key |-> key, args |-> args] : args \in
                 {sound, [extra |-> Number(1)] @@ sound}
                 \cup {[sound EXCEPT ![f] = v] : f \in DOMAIN sound, v \in Oddities}
                 \cup {Restrict(sound, DOMAIN sound \ {f}) : f \in DOMAIN sound}} :
           key \in EncodedKeys}

\* What the paths of the seeds stand for in a transaction.
NamedBy(n) ==
    [path \in DOMAIN InputNames |->
        CASE InputNames[path] \in {"proposalNonce", "revenueEpoch", "orderId"} -> Decimal(n + 70)
          [] InputNames[path] = "paramsHash" -> Hex(K(n))
          [] OTHER -> Key(K(n + Len(path)))]
Derivations ==
    {[kind |-> "derive", key |-> key, named |-> NamedBy(n), more |-> more] :
        key \in InstructionKeys, n \in {1, 30}, more \in {<<>>, [another |-> Key(K(3))]}}

Digitals(base, most) == UNION {[1..n -> 0..base - 1] : n \in 1..most}
Numbers ==
    {[kind |-> "bytes", bytes |-> b] : b \in Digitals(Bits, 4)}
    \cup {[kind |-> "string", string |-> s] : s \in Digitals(Digits, 5)}
    \cup {[kind |-> "curve", d |-> d, p |-> 13] : d \in NonSquares(13)}
    \cup {[kind |-> "curve", d |-> d, p |-> 29] : d \in NonSquares(29)}

-----------------------------------------------------------------------------
\* Accounts and liquidations

\* A value of a type whose fields differ from one another.
RECURSIVE Filled(_, _)
Filled(type, n) ==
    CASE type.kind = "struct" ->
            [f \in {type.fields[i][1] : i \in DOMAIN type.fields} |->
                LET i == CHOOSE j \in DOMAIN type.fields : type.fields[j][1] = f
                IN  Filled(type.fields[i][2], (n * 7 + i) % 64)]
      [] type.kind = "pubkey" -> K(n)
      [] type.kind = "array" ->
            LET size == CHOOSE s \in SizeOf(type) : TRUE IN [i \in 1..size |-> (n + i) % 8]
      [] type.kind = "vec" -> [i \in 1..n % 4 |-> n]
      [] type.kind = "option" -> IF n % 2 = 0 THEN <<>> ELSE K(n)
      [] type.kind = "bool" -> n % 2
      [] type.kind = "u8" -> n % 8
      [] OTHER -> n

Readings ==
    {[kind |-> "read", chain |-> l, name |-> name,
      value |-> Filled(IdlsOf[l]["dusk"].types[name], n)] :
        l \in Made, name \in DOMAIN Wanted, n \in {2, 5, 40}}

Partner == K(50)
MarketOf(v, asset, weight, format, exposure) ==
    LET filled == Filled(Types(v).Market, 3) IN
    [filled EXCEPT !.base_side.asset_mint = K(60), !.quote_side.asset_mint = K(61),
                   !.oracle.policy.lambda_bps = weight, !.oracle.policy.format = format,
                   !.oracle.policy.quote_account = IF asset = 1 THEN Zero ELSE @,
                   !.base_hlp_vault.hlp_supply = exposure, !.quote_hlp_vault.hlp_supply = 0,
                   !.base_hlp_vault.residual_exposure = 0, !.quote_hlp_vault.residual_exposure = 0]

BorrowOf(v, partner, session) ==
    [Filled(Types(v).BorrowPosition, 4) EXCEPT
        !.market = K(62), !.base_referral_partner = partner, !.quote_referral_partner = Zero,
        !.active_liquidation_session = session]
LeverageOf(v, side, partner, session) ==
    [Filled(Types(v).LeveragePosition, 4) EXCEPT
        !.market = K(62), !.referral_partner = partner, !.debt_asset = side,
        !.active_liquidation_session = session]

QuoteData(fields) ==
    FlattenSeq([i \in DOMAIN fields |-> Le(IF fields[i][3] = 1 THEN 1 ELSE (i * 11) % 64, fields[i][3])])

\* A plan that is made, and what may keep it from being made.
Planned(name, debt, kind) ==
    [kind |-> "plan", chain |-> "L0", name |-> name, key |-> K(63), buyer |-> K(59), debt |-> debt,
     position |-> IF name = "BorrowPosition" THEN BorrowOf(0, Partner, Zero)
                  ELSE LeverageOf(0, 1, Partner, Zero),
     market |-> MarketOf(0, debt, 5, 2, 0),
     quote |-> kind, data |-> QuoteData(IF kind = "flash" THEN FlashQuote ELSE EmergencyQuote),
     most |-> 20, least |-> 6, prefix |-> LiquidationResources, route |-> <<>>, internal |-> TRUE,
     slot |-> 9, clock |-> 9, tokens |-> <<TokenId, Token22Id>>, readable |-> TRUE]

Swaps(n) == [i \in 1..n |-> [name |-> "swap", id |-> <<"key", "amm">>, data |-> <<i>>, accounts |-> <<>>]]

\* The quote, the Clock, the mints and the options of the plan.
Options(w) ==
    {w, [w EXCEPT !.clock = 8], [w EXCEPT !.readable = FALSE],
     [w EXCEPT !.data = Append(@, 0)], [w EXCEPT !.data = SubSeq(@, 1, Len(@) - 1)],
     [w EXCEPT !.internal = FALSE], [w EXCEPT !.internal = FALSE, !.route = Swaps(2)],
     [w EXCEPT !.route = Swaps(1)], [w EXCEPT !.prefix = <<>>], [w EXCEPT !.prefix = Swaps(62)],
     [w EXCEPT !.prefix = Swaps(63)]}

\* The market and the position.
Situations(w) ==
    {[w EXCEPT !.market = MarketOf(0, asset, weight, format, exposure)] :
        asset \in {0, 1}, weight \in {0, 5, 50}, format \in {2, 5}, exposure \in {0, 7}}
    \cup {[w EXCEPT !.position = IF w.name = "BorrowPosition" THEN BorrowOf(0, p, s)
                                 ELSE LeverageOf(0, side, p, s)] :
            p \in {Partner, Zero}, s \in {Zero, K(40)}, side \in {0, 1}}
    \cup {[w EXCEPT !.chain = "L1", !.market = MarketOf(1, 0, 5, 2, 0),
                    !.position = IF w.name = "BorrowPosition" THEN BorrowOf(1, Partner, Zero)
                                 ELSE LeverageOf(1, w.debt, Partner, Zero)]}

PlansTried ==
    UNION {Options(Planned("BorrowPosition", 0, kind)) \cup Options(Planned("LeveragePosition", 1, kind)) :
           kind \in {"flash", "emergency"}}
    \cup UNION {Situations(Planned(name, debt, "flash")) :
                name \in {"BorrowPosition", "LeveragePosition"}, debt \in {0, 1}}

MCCalls == Encodings \cup Derivations \cup Numbers \cup Readings \cup PlansTried

MCClockKey == K(58)
MCAtaProgram == <<"key", "ata">>
MCProgramKey == (TokenId :> K(56)) @@ (Token22Id :> K(57))

-----------------------------------------------------------------------------
\* Fees and captures

MCMints ==
    [owner : {"token"}, extended : {FALSE}, configs : {0}, intact : {TRUE}]
    \cup [owner : {"token_2022"}, extended : {TRUE}, configs : 0..2, intact : BOOLEAN]

MCPrograms == <<"dusk", "leverage_delegate">>
MCBuilds == {[p \in {"dusk", "leverage_delegate"} |-> [idl |-> v, binary |-> v]] : v \in {0, 1}}

-----------------------------------------------------------------------------
MCInit ==
    /\ part \in {"fees", "captures", "adapter"}
    /\ Init /\ (part # "fees" => mint.owner = "token" /\ \A b \in Rates : b >= schedule.newer.bps
                                 /\ \A x \in Maxima : x >= schedule.newer.maximum)
    /\ CaptureInit /\ (part # "captures" => /\ files.lock.revision = CHOOSE r \in Revisions : TRUE
                                            /\ chain["dusk"].idl = 0)
    /\ AdapterInit /\ live.lock = live.made
    /\ part # "adapter" => live.made = CHOOSE l \in Made : TRUE

MCNext ==
    \/ part = "fees" /\ Next /\ UNCHANGED <<part, captureVars, gateVars>>
    \/ part = "captures" /\ CaptureNext /\ UNCHANGED <<part, vars, gateVars>>
    \/ part = "adapter" /\ AdapterNext /\ UNCHANGED <<part, vars, captureVars>>

MCSpec == MCInit /\ [][MCNext]_<<part, vars, captureVars, gateVars>>
=============================================================================
