---------------------------- MODULE TaskSamples ----------------------------
(***************************************************************************)
(* The words, tasks and symbols the first stages of a selection are        *)
(* checked on.                                                             *)
(***************************************************************************)
EXTENDS TaskSelect, SequencesExt

LOCAL One(text)       == Word("plain", text, <<Run(text, <<text>>)>>, "")
LOCAL Single(texts)   == [i \in 1..Len(texts) |-> Run(texts[i], <<texts[i]>>)]
LOCAL Camel(text, ps) == Word("plain", text, <<Run(text, ps)>>, "")

SampleWords ==
  {One("Login"), One("login"), One("config"),
   Camel("FlakyFile", <<"Flaky", "File">>),
   Word("plain", "remember_me", Single(<<"remember", "me">>), "rememberme"),
   Word("plain", "tes-t", Single(<<"tes", "t">>), "test"),
   Word("plain", "auth-file", Single(<<"auth", "file">>), "authfile"),
   Word("qualified", "pkg.File", Single(<<"pkg", "File">>), ""),
   Word("qualified", "auth.test", Single(<<"auth", "test">>), ""),
   Word("path", "auth/login.go", Single(<<"auth", "login", "go">>), "")}

MCTask == UNION {[1..n -> SampleWords] : n \in 0..3}

LOCAL Texts == {"Login", "login", "config", "Flaky", "File", "file", "flaky", "FlakyFile",
                "remember", "me", "rememberme", "remember_me", "tes", "t", "test", "tes-t",
                "auth", "auth-file", "authfile", "pkg", "pkg.File", "auth.test", "go",
                "auth/login.go"}
LOCAL Folded == [Login |-> "login", Flaky |-> "flaky", File |-> "file", FlakyFile |-> "flakyfile"]
MCLower == [t \in Texts |-> IF t \in DOMAIN Folded THEN Folded[t] ELSE t]

MCSymbol ==
  {[file |-> "session", name |-> "Login", tokens |-> {"login"}, otherTokens |-> {"session", "go"}],
   [file |-> "other", name |-> "login", tokens |-> {"login"}, otherTokens |-> {"auth", "go"}],
   [file |-> "other", name |-> "remember_me", tokens |-> {"remember", "me"},
    otherTokens |-> {"auth", "go"}],
   [file |-> "other", name |-> "File", tokens |-> {"file"}, otherTokens |-> {"auth", "go"}]}
=============================================================================
