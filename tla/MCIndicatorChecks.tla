-------------------------- MODULE MCIndicatorChecks --------------------------
(* IndicatorChecks on a small instance: a browser history and cookies that name *)
(* evil.example in several spellings and its neighbour notevil.example, sets    *)
(* that share files in either order, and reports with a time iLEAPP got wrong.  *)
EXTENDS IndicatorChecks, TLC

CONSTANTS g1, g2, m1, m2

Text(is, name, form) == [is |-> is, name |-> name, rest |-> "", form |-> form]
Time(t) == [is |-> "time", at |-> t]
Null == [is |-> "null"]
Evil == <<"evil", "example">>

Source(origin, column, extract) == [origin |-> origin, column |-> column, extract |-> extract]
SmallMap ==
  [paths |-> ("domain-name:value" :> "domain") @@ ("url:value" :> "url") @@ ("email-addr:value" :> "email")
             @@ ("process:name" :> "process_name") @@ ("file:path" :> "file_path") @@ ("app:cert.sha1" :> "app_certificate"),
   types |-> [t \in {"domain", "url", "process_name", "bundle_id", "email"} |->
               CASE t = "domain" -> [from_url |-> TRUE, sources |-> {Source("Cookies", "Host", "cookie_host")}]
                 [] t = "url" -> [from_url |-> FALSE, sources |-> {Source("History", "URL", "value")}]
                 [] t = "process_name" -> [from_url |-> FALSE, sources |-> {Source("crash report", "process_name", "value")}]
                 [] t = "email" -> [from_url |-> FALSE, sources |-> {Source("History", "Account", "email_only")}]
                 [] OTHER -> [from_url |-> FALSE, sources |-> {}]],
   no_source |-> {"file_path", "app_certificate"}]

Test(path, text) == [path |-> path, text |-> text]
Object(id, tests) ==
  [id |-> id, bad |-> "no", revoked |-> FALSE, stix |-> TRUE, odd |-> None, expired |-> FALSE, tests |-> tests]
ThreeFiles ==
  <<[bundle |-> TRUE, objects |->
      {Object("o1", <<Test("domain-name:value", Text("domain", Evil, {"upper"})),
                      Test("email-addr:value", Text("email", Evil, {"upper"}))>>),
       Object("o2", <<Test("domain-name:value", Text("domain", Evil, {})), Test("mutex:name", Text("name", <<"m">>, {}))>>),
       [Object("o3", <<Test("url:value", Text("url", Evil, {}))>>) EXCEPT !.revoked = TRUE]}],
    [bundle |-> TRUE, objects |->
      {Object("o4", <<Test("file:path", Text("name", <<"f">>, {})), Test("process:name", Text("name", <<"bh">>, {}))>>),
       [Object("o5", <<>>) EXCEPT !.odd = "followedby"], [Object("o6", <<>>) EXCEPT !.stix = FALSE],
       Object("o7", <<Test("app:cert.sha1", Text("name", <<"c">>, {}))>>)}],
    [bundle |-> TRUE, objects |-> {[Object("o8", <<>>) EXCEPT !.bad = "pattern"]}]>>
Set(name, files, from) == [name |-> name, files |-> files, from |-> from, tidy |-> TRUE]
ThreeGiven == {Set("a", <<1, 2>>, "feed"), Set("b", <<2, 1>>, "feed"), Set("d", <<1, 3>>, "own")}

History ==
  [name |-> "History", module |-> "safari", table |-> "history", count |-> 2, times |-> <<"visited">>, source |-> "inside",
   headers |-> ("url" :> "URL") @@ ("visited" :> "Visited") @@ ("account" :> "Account")]
Cookies ==
  [name |-> "Cookies", module |-> "cookies", table |-> "cookies", count |-> 2, times |-> <<>>, source |-> NoValue,
   headers |-> ("host" :> "Host")]
FourArtifacts == <<History, Cookies, [Cookies EXCEPT !.count = 3], [History EXCEPT !.count = 1]>>
Visit(url, t, account) == ("url" :> url) @@ ("visited" :> Time(t)) @@ ("account" :> account)
HistoryTable(last) ==
  [columns |-> {"url", "visited", "account"},
   rows |-> <<Visit(Text("url", <<"a">> \o Evil, {"escape"}), 2, Text("name", <<"phone">>, {})), Visit(last, 30, Null)>>]
CookieTable ==
  [columns |-> {"host"}, rows |-> <<("host" :> Text("domain", Evil, {"leading", "dot"})),
                                    ("host" :> Text("domain", <<"notevil", "example">>, {}))>>]
OneVisit == [HistoryTable(Null) EXCEPT !.rows = <<Visit(Text("url", Evil, {"port"}), 20, Null)>>]
FourTables == <<HistoryTable([is |-> "binary"]), HistoryTable(Text("url", Evil, {})), CookieTable, OneVisit>>
Report(tool, artifacts, tables, errored) ==
  [faults |-> {}, tool |-> tool, artifacts |-> artifacts, tables |-> tables, errored |-> errored]
\* The last is by a version of iLEAPP that gets the times right.
ThreeReports == <<
  Report("v1", {1, 2}, ("history" :> 1) @@ ("cookies" :> 3), {}),
  Report("v1", {1}, ("history" :> 2), {"cookies"}),
  Report("v2", {3, 4}, ("cookies" :> 3) @@ ("history" :> 4), {"keychain"})>>
TwoVersions ==
  <<{}, {[tools |-> {"v1"}, module |-> "safari", artifact |-> "History", column |-> "Visited", below |-> 5, factor |-> 10]}>>
OneCrash ==
  [content |-> [crash |-> 1], ver |-> 1, of |-> 0,
   facts |-> <<[origin |-> "crash report", fields |-> ("process_name" :> Text("name", <<"bh">>, {})), time |-> 12,
                corrected |-> {}, review |-> {}]>>]
ASSUME OnlyDefectiveToolsErr
Same == Permutations({g1, g2}) \cup Permutations({m1, m2})
===============================================================================
