---------------------------- MODULE MCEngineChain ----------------------------
(* Small instances of EngineChain.  Fiscal year y ends in quarter 4y and its  *)
(* 10-K is filed a quarter later; the first bar is of the day of that of year 6. *)
EXTENDS EngineChain

ASSUME InstanceIsNotRefiled == NothingIsRefiled

\* A fact about year y in the 10-K of year y.
Fact(concept, y, days, v) ==
    [concept |-> concept, priority |-> 1, form |-> "10-K", end |-> 4 * y, days |-> days,
     fy |-> y, filed |-> 4 * y + 1, accn |-> y, value |-> v]
Annual365(concept, y, v) == Fact(concept, y, 365, v)
Balance(concept, y, v) == Fact(concept, y, 0, v)

\* The same fact in the 10-K of another year.
RepublishedIn(f, y) == [f EXCEPT !.fy = y, !.filed = 4 * y + 1, !.accn = y]

\* A series that ends with the fiscal year 5.
Years(concept, values) ==
    [i \in DOMAIN values |-> Annual365(concept, 5 - Len(values) + i, values[i])]
Flows(values) ==
    Years("operating_cash_flow", [i \in DOMAIN values |-> values[i] + 50])
      \o Years("capex", [i \in DOMAIN values |-> 50])

\* The interest comes under two tags, and the fourth quarter after the year.
Statement(y, op, interest, tax, pretax, earnings) ==
    <<Annual365("operating_income", y, op), Annual365("depreciation_amortization", y, 80),
      Annual365("interest_expense", y, interest),
      [Annual365("interest_expense", y, interest + 15) EXCEPT !.priority = 2],
      Annual365("income_tax_expense", y, tax), Annual365("pretax_income", y, pretax),
      Annual365("net_earnings", y, earnings), Fact("net_earnings", y, 91, earnings \div 4)>>

Sheet(shares, equity, debt) ==
    <<Balance("shares_outstanding", 5, shares), Balance("shareholders_equity", 5, equity),
      Balance("long_term_debt", 5, debt - 60), Balance("short_term_debt", 5, 60),
      Balance("total_assets", 5, 3 * equity)>>
Cash(v) == <<Balance("cash_and_equivalents", 5, v)>>

Rising == Years("eps_diluted", <<100, 120, 140, 160, 200>>)
            \o Years("revenues", <<1000, 1100, 1200, 1350, 1500>>)
Usual == Statement(5, 300, 30, 57, 270, 200) \o Sheet(100, 800, 500)

MCHistories ==
    [sound     |-> Usual \o Cash(100) \o Rising \o Flows(<<100, 110, 130, 140, 160>>),
     young     |-> Statement(5, 300, 30, 57, 270, 200) \o Sheet(50, 800, 500) \o Cash(100)
                     \o Years("eps_diluted", <<140, 160, 200>>)
                     \o Years("revenues", <<1200, 1350, 1500>>) \o Flows(<<700, 1000, 1300>>),
     collapsed |-> Usual \o Cash(100) \o Rising \o Flows(<<100, 110, 130, 140, 30>>),
     losing    |-> Statement(5, 40, 60, 0, -20, -20) \o Sheet(100, 200, 900)
                     \o Years("eps_basic", <<60, 80, 40, -20>>)
                     \o Years("revenues", <<900, 1000, 900, 800>>)
                     \o Years("operating_cash_flow", <<120, 110>>)
                     \o <<Annual365("capex", 3, 40)>>,
     divided   |-> Usual \o Cash(100) \o Years("eps_diluted", <<80, 100, 120, 140, 160, 200>>)
                     \o Years("revenues", <<900, 1000, 1100, 1200, 1350, 1500>>)
                     \o Flows(<<300, 250, 230, 180, 150, 90>>),
     misscaled |-> Statement(5, 3000, 30, 600, 2970, 4000) \o Sheet(100, 8000, 500) \o Cash(100)
                     \o Years("eps_diluted", <<900, 1400, 2000, 4000>>)
                     \o Flows(<<160, 180, 220, 300>>),
     classed   |-> Statement(5, 300, 30, 57, 270, 200) \o Sheet(1, 800, 500) \o Cash(100)
                     \o Rising \o Flows(<<100, 110, 130, 140, 160>>),
     basic     |-> Usual \o Cash(100) \o Years("eps_basic", <<80, 100, 120, 140, 160, 200>>)
                     \o Years("revenues", <<900, 1000, 1100, 1200, 1350, 1500>>)
                     \o Flows(<<90, 100, 110, 130, 140, 160>>),
     cashrich  |-> Statement(5, 300, 30, 57, 270, 200) \o Sheet(100, -200, 500) \o Cash(400)
                     \o Years("eps_diluted", <<80, 100, 120, 140, 160, 200>>)
                     \o Years("revenues", <<900, 1000, 1100, 1200, 1350, 1500>>)
                     \o Flows(<<90, 100, 110, 130, 140, 160>>)]
MCTickers == [c \in DOMAIN MCHistories |-> IF c = "classed" THEN "BRK-B" ELSE "ONE"]

\* The 10-K of the next year, with the one before restated, and a 10-K/A that
\* nobody reads, with a beta observed that day; two quarters later the one before
\* it is too old.
Arriving(facts, betas) == [company |-> "sound", facts |-> facts, betas |-> betas]
Amended(f) == [f EXCEPT !.form = "10-K/A", !.filed = 22, !.accn = 9]
NextYear ==
    Statement(6, 330, 33, 66, 297, 220)
      \o <<RepublishedIn(Annual365("operating_income", 5, 150), 6),
            Annual365("eps_diluted", 6, 220), RepublishedIn(Annual365("eps_diluted", 5, 130), 6),
            Amended(Annual365("eps_diluted", 5, 10)),
            Annual365("operating_cash_flow", 6, 240), Annual365("capex", 6, 50),
            Annual365("revenues", 6, 1650)>>
\* And the first diluted earnings per share of a company that had basic ones only.
YearAndBeta ==
    [year    |-> Arriving(NextYear, {[asOf |-> 25, beta |-> 110]}),
     diluted |-> [Arriving(<<Annual365("eps_diluted", 6, 220)>>, {}) EXCEPT !.company = "basic"]]

\* The next year after a split of two for one, which rescales the one before.
SplitYear ==
    [year |-> Arriving(<<Annual365("eps_diluted", 6, 110),
                         RepublishedIn(Annual365("eps_diluted", 5, 100), 6)>>, {})]

MCBetaHistory == {[asOf |-> 12, beta |-> 150], [asOf |-> 24, beta |-> 120]}

\* The peers as they usually are, and not yet computed.
UsualPeer ==
    [pe_ratio |-> 13000, pb_ratio |-> 3300, fcf_yield |-> 5800, roe |-> 240, roic |-> 190,
     ev_ebitda |-> 8000, ev_ebit |-> 10000, net_debt_to_ebitda |-> 1000]
MCPeerTables ==
    {{}, {[peer |-> p, asOf |-> 18, metric |-> m, version |-> DefiningVersion(m),
           value |-> UsualPeer[m]] : p \in Peers, m \in DOMAIN UsualPeer}}

MCOldRows ==
    {[asOf |-> 18, metric |-> "pe_ratio", version |-> "1.0.0", value |-> 12000],
     [asOf |-> 18, metric |-> "roe", version |-> "1.0.0", value |-> 200],
     [asOf |-> 18, metric |-> "pb_ratio", version |-> "1.0.0", value |-> None],
     [asOf |-> 18, metric |-> "roic", version |-> "2.0.0", value |-> 900],
     [asOf |-> 25, metric |-> "roic", version |-> "2.0.0", value |-> 900]}
=============================================================================
