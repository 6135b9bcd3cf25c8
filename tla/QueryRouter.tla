----------------------------- MODULE QueryRouter -----------------------------
(* Where the sales skill looks for the answer to a customer's question        *)
(* (skills/sales-demo/scripts/route_query.py; cinnox-demo has the same code): *)
(* the areas, the country and the kind of number a question is about, and     *)
(* when the customer is asked back.                                           *)
(*                                                                            *)
(* A text is what the searches find in it: `has` is the keywords that occur   *)
(* anywhere, inside other words too, and `word` those that occur as words.    *)
(* A question is its text, the text after the synonyms were replaced, whether *)
(* one was, and what the patterns of a question for a term capture.  A table  *)
(* that is searched in order is a sequence of rows; Chinese names are         *)
(* transcribed.                                                               *)
EXTENDS Integers, Sequences

CONSTANTS
  Glossary,   \* the terms of glossary.json
  Synonyms,   \* synonym-map.json: [synonym -> term]
  NotFound

DomainKeywords ==
  [contact_center |-> {"cinnox", "plan", "subscription", "feature", "integration", "omnichannel",
                       "contact center", "cx hub", "whatsapp", "webchat", "live chat", "m800",
                       "pricing plan", "enterprise plan"},
   ai_sales_bot   |-> {"ai sales bot", "voice bot", "sales bot", "ai bot"},
   global_telecom |-> {"did", "virtual number", "toll-free", "toll free", "tollfree", "local number",
                       "rate", "call rate", "sms rate", "international", "vn rate", "vn pricing",
                       "number pricing", "number fee", "number cost", "number rate", "idd", "pstn",
                       "sip trunk", "dtmf"}]

(* REGION_MAP, in its order.                                                  *)
RegionMap ==
  << <<"us", "US">>, <<"united states", "US">>, <<"usa", "US">>,
     <<"uk", "UK">>, <<"united kingdom", "UK">>, <<"britain", "UK">>,
     <<"england", "UK">>, <<"hong kong", "HK">>, <<"hk", "HK">>,
     <<"singapore", "SG">>, <<"sg", "SG">>, <<"japan", "JP">>, <<"jp", "JP">>,
     <<"australia", "AU">>, <<"au", "AU">>, <<"germany", "DE">>,
     <<"de", "DE">>, <<"deutschland", "DE">>, <<"france", "FR">>,
     <<"fr", "FR">>, <<"canada", "CA">>, <<"ca", "CA">>, <<"india", "IN">>,
     <<"in", "IN">>, <<"china", "CN">>, <<"cn", "CN">>,
     <<"mainland china", "CN">>, <<"taiwan", "TW">>, <<"tw", "TW">>,
     <<"south korea", "KR">>, <<"kr", "KR">>, <<"malaysia", "MY">>,
     <<"my", "MY">>, <<"thailand", "TH">>, <<"th", "TH">>,
     <<"philippines", "PH">>, <<"ph", "PH">>, <<"indonesia", "ID">>,
     <<"id", "ID">>, <<"uae", "AE">>, <<"united arab emirates", "AE">> >>

(* COUNTRY_ALIAS_MAP, longest alias first.                                    *)
CountryAliases ==
  << <<"mainland china", "china">>, <<"great britain", "united kingdom">>,
     <<"deutschland", "germany">>, <<"america", "united states">>,
     <<"britain", "united kingdom">>, <<"england", "united kingdom">>,
     <<"usa", "united states">>, <<"uae", "united arab emirates">>,
     <<"us", "united states">>, <<"uk", "united kingdom">>,
     <<"hk", "hong kong">>, <<"sg", "singapore">>, <<"jp", "japan">>,
     <<"au", "australia">>, <<"de", "germany">>, <<"fr", "france">>,
     <<"ca", "canada">>, <<"cn", "china">>, <<"tw", "taiwan">>,
     <<"kr", "south korea">>, <<"my", "malaysia">>, <<"th", "thailand">>,
     <<"ph", "philippines">> >>

(* REGION_ALIASES, longest first, then the names of REGION_COUNTRIES.         *)
BroadRegions ==
  << <<"north american", "north america">>,
     <<"south american", "south america">>,
     <<"middle eastern", "middle east">>,
     <<"latin america", "south america">>, <<"european", "europe">>,
     <<"asian", "asia">>, <<"la ding mei zhou", "south america">>,
     <<"da yang zhou", "oceania">>, <<"eu", "europe">>,
     <<"ou zhou", "europe">>, <<"ya zhou", "asia">>, <<"ya tai", "asia">>,
     <<"bei mei", "north america">>, <<"nan mei", "south america">>,
     <<"zhong dong", "middle east">>, <<"fei zhou", "africa">>,
     <<"ou", "europe">>, <<"europe", "europe">>, <<"asia", "asia">>,
     <<"north america", "north america">>,
     <<"south america", "south america">>, <<"middle east", "middle east">>,
     <<"oceania", "oceania">>, <<"africa", "africa">> >>

(* A name that could be one of several countries, and those that say which.   *)
AmbiguousCountries ==
  << <<"netherlands", {"netherlands antilles"}>>,
     <<"american", {"united states", "american samoa"}>>,
     <<"dominica", {"dominican rep"}>>,
     <<"america", {"united states", "american samoa"}>>,
     <<"vietnam", {"vietnam (120 - vnpt network)", "vietnam (121 - mobifone network)",
                   "vietnam (122 - viettel network)"}>>,
     <<"guinea", {"equatorial guinea", "guinea bissau", "papua new guinea"}>>,
     <<"congo", {"democratic republic of the congo"}>>,
     <<"sudan", {"south sudan"}>>,
     <<"niger", {"nigeria"}>>,
     <<"samoa", {"american samoa"}>>,
     <<"korea", {"south korea", "north korea"}>> >>

TollFreeKw == {"toll-free", "toll free", "tollfree", "1800", "800 number", "freephone"}
LocalKw    == {"local number", "local did", "geographic number"}
PricingKw  == {"pricing", "price", "cost", "how much", "fee", "charge", "rate card", "subscription fee"}

RoleForDomain ==
  [contact_center |-> "product_specialist", ai_sales_bot |-> "product_specialist",
   global_telecom |-> "region_specialist"]

-----------------------------------------------------------------------------
(* The searches                                                               *)

LowerHas(text, keywords) == text.has \cap keywords /= {}

First(rows, text, i) == rows[i][1] \in text.word /\ \A j \in 1 .. i - 1 : rows[j][1] \notin text.word

(* The value of the first row whose name is a word of the text.               *)
Found(rows, text) ==
  IF \E i \in DOMAIN rows : rows[i][1] \in text.word
  THEN rows[CHOOSE i \in DOMAIN rows : First(rows, text, i)][2] ELSE NotFound

(* The keywords that occur inside the name of a country.                      *)
Within(name) == IF name = "united arab emirates" THEN {"rate"} ELSE {}

(* The query with the official name of a country appended, unless it is there.*)
Appends(query) ==
  /\ Found(CountryAliases, query.replaced) /= NotFound
  /\ Found(CountryAliases, query.replaced) \notin query.replaced.has

ExpandQuery(query) ==
  LET name == Found(CountryAliases, query.replaced) IN
  IF Appends(query)
  THEN [has  |-> query.replaced.has \cup {name} \cup Within(name),
        word |-> query.replaced.word \cup {name}]
  ELSE query.replaced

MatchedTerms(query) == query.synonym \/ Appends(query)

DetectAmbiguousCountry(text) ==
  \E i \in DOMAIN AmbiguousCountries :
    AmbiguousCountries[i][1] \in text.word /\ AmbiguousCountries[i][2] \cap text.has = {}

(* The complex-intent keywords that are looked for last change nothing.       *)
IsGlossaryOnly(query) ==
  \E term \in query.terms :
    term \in Glossary \/ (term \in DOMAIN Synonyms /\ Synonyms[term] \in Glossary)

-----------------------------------------------------------------------------
(* route                                                                      *)

Region(query)      == Found(RegionMap, query.text)
BroadRegion(query) == Found(BroadRegions, ExpandQuery(query))

MatchedDomains(query) ==
  {domain \in DOMAIN DomainKeywords :
     \/ LowerHas(ExpandQuery(query), DomainKeywords[domain])
     \/ domain = "global_telecom" /\ BroadRegion(query) /= NotFound}

IsTollFree(text) == LowerHas(text, TollFreeKw)

(* A direct number is a local one.                                            *)
IsLocal(text) == LowerHas(text, LocalKw) \/ ("did" \in text.word /\ ~IsTollFree(text))

NumberType(text) ==
  IF IsTollFree(text) = IsLocal(text) THEN NotFound ELSE IF IsLocal(text) THEN "local" ELSE "toll-free"

Role(domain, text) ==
  IF domain = NotFound THEN NotFound
  ELSE IF domain = "contact_center" /\ LowerHas(text, PricingKw) THEN "pricing_specialist"
  ELSE RoleForDomain[domain]

(* The customer is asked for the area before anything else is looked at.      *)
AsksForArea(query) == \E a, b \in MatchedDomains(query) : a /= b

Domain(query) ==
  IF MatchedDomains(query) = {} THEN NotFound ELSE CHOOSE domain \in MatchedDomains(query) : TRUE

(* What a customer whose question is about one area at most is asked.         *)
Clarifies(query) ==
  IF DetectAmbiguousCountry(query.text) THEN "which of these countries"
  ELSE IF Domain(query) = NotFound THEN (IF IsGlossaryOnly(query) THEN NotFound ELSE "more")
  ELSE IF Domain(query) /= "global_telecom" \/ BroadRegion(query) /= NotFound THEN NotFound
  ELSE IF Region(query) = NotFound THEN "which country"
  ELSE IF NumberType(query.text) = NotFound /\ LowerHas(query.text, {"number", "did", "vn"}) THEN "which number"
  ELSE NotFound

Confidence(query) ==
  IF Domain(query) /= NotFound /\ Region(query) /= NotFound THEN "high"
  ELSE IF Domain(query) /= NotFound \/ MatchedTerms(query) THEN "medium" ELSE "low"

Route(query) ==
  IF AsksForArea(query)
  THEN [ambiguous |-> TRUE, asks |-> "which area", candidates |-> MatchedDomains(query),
        region |-> Region(query), number_type |-> NumberType(query.text),
        is_glossary_only |-> IsGlossaryOnly(query)]
  ELSE [ambiguous |-> Clarifies(query) /= NotFound, asks |-> Clarifies(query), domain |-> Domain(query),
        region |-> Region(query),
        number_type |-> IF Domain(query) = "global_telecom" /\ Region(query) /= NotFound
                        THEN NumberType(query.text) ELSE NotFound,
        role |-> Role(Domain(query), query.text), confidence |-> Confidence(query),
        is_glossary_only |-> IsGlossaryOnly(query), broad_region |-> BroadRegion(query)]
=============================================================================
