----------------------------- MODULE MCAuthFlow -----------------------------
(* AuthFlow for TLC: policies of policy.conf to start from.                *)
EXTENDS AuthFlow

\* nothing set; face off; IR asked for everywhere; everything off; the
\* override that forces each tier
Default == EmptyConf
FingerprintConf == [EmptyConf EXCEPT !["method"] = "fingerprint"]
StrictConf == [EmptyConf EXCEPT !["screen_unlock"] = "ir"]
OffConf == [EmptyConf EXCEPT !["screen_unlock"] = "off", !["login"] = "off",
                             !["sudo"] = "off"]
ForcedConf(t) == [EmptyConf EXCEPT !["tier"] = t]

AllPolicies == {Default, FingerprintConf, StrictConf, OffConf,
                ForcedConf("secure"), ForcedConf("convenience")}
OnePolicy == {Default}
NoSettings == {}
MethodSettings == {<<"method", "fingerprint">>}
=============================================================================
