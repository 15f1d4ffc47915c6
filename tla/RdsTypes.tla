------------------------------ MODULE RdsTypes ------------------------------
(* The structs of pkg/xds/types/rds, in the order of the file: the part of  *)
(* the Route (route_config) resource generated from the Envoy messages.     *)
(* TypeGraph says how a row is read.                                        *)
EXTENDS TypeGraph, TLC

\* RDS to ClusterSpecifierPlugin.
RdsTypes1 ==
    "RDS" :> Struct({"Metadata", "Vhds"}, {"ClusterSpecifierPlugin",
        "HeaderValueOption", "RouteAction_RequestMirrorPolicy",
        "VirtualHost"}, {Raw})
 @@ "ClusterSpecifierPlugin" :> Struct({"TypedExtensionConfig", Raw}, {},
        {})

\* ConfigSource to DirectResponseAction.
RdsTypes2 ==
    "ConfigSource" :> Struct({}, {}, {})
 @@ "CorsPolicy" :> Struct({"RuntimeFractionalPercent"},
        {"StringMatcher"}, {})
 @@ "CustomTag" :> Struct({}, {}, {})
 @@ "DataSource" :> Struct({"WatchedDirectory"}, {}, {})
 @@ "Decorator" :> Struct({}, {}, {})
 @@ "DirectResponseAction" :> Struct({"DataSource"}, {}, {})

\* DoubleMatcher to HeaderValue.
RdsTypes3 ==
    "DoubleMatcher" :> Struct({"DoubleRange"}, {}, {})
 @@ "DoubleRange" :> Struct({}, {}, {})
 @@ "FilterAction" :> Struct({Raw}, {}, {})
 @@ "FilterStateMatcher" :> Struct({}, {}, {})
 @@ "FractionalPercent" :> Struct({}, {}, {})
 @@ "HeaderMatcher" :> Struct({"Int64Range", "RegexMatcher",
        "StringMatcher"}, {}, {})
 @@ "HeaderMutation" :> Struct({Raw}, {}, {})
 @@ "HeaderValue" :> Struct({}, {}, {})

\* HeaderValueOption to Metadata.
RdsTypes4 ==
    "HeaderValueOption" :> Struct({"HeaderValue"}, {}, {})
 @@ "HedgePolicy" :> Struct({"FractionalPercent"}, {}, {})
 @@ "Int64Range" :> Struct({}, {}, {})
 @@ "InternalRedirectPolicy" :> Struct({}, {"TypedExtensionConfig"}, {})
 @@ "JsonFormatOptions" :> Struct({}, {}, {})
 @@ "ListMatcher" :> Struct({"ValueMatcher"}, {}, {})
 @@ "Metadata" :> Struct({}, {}, {Raw})

\* MetadataKey to QueryParameterMatcher.
RdsTypes5 ==
    "MetadataKey" :> Struct({}, {Raw}, {})
 @@ "MetadataMatcher" :> Struct({"ValueMatcher"},
        {"MetadataMatcher_PathSegment"}, {})
 @@ "MetadataMatcher_PathSegment" :> Struct({}, {}, {})
 @@ "OrMatcher" :> Struct({}, {"ValueMatcher"}, {})
 @@ "ProxyProtocolConfig" :> Struct({"ProxyProtocolPassThroughTLVs"},
        {"TlvEntry"}, {})
 @@ "ProxyProtocolPassThroughTLVs" :> Struct({}, {}, {})
 @@ "QueryParameterMatcher" :> Struct({"StringMatcher"}, {}, {})

\* RateLimit to RateLimit_Action_DynamicMetaData.
RdsTypes6 ==
    "RateLimit" :> Struct({"RateLimit_HitsAddend", "RateLimit_Override"},
        {"RateLimit_Action"}, {})
 @@ "RateLimit_Action" :> Struct({"TypedExtensionConfig", Raw}, {}, {})
 @@ "RateLimit_Action_DynamicMetaData" :> Struct({"MetadataKey"}, {}, {})

\* RateLimit_Action_GenericKey to RateLimit_HitsAddend.
RdsTypes7 ==
    "RateLimit_Action_GenericKey" :> Struct({}, {}, {})
 @@ "RateLimit_Action_HeaderValueMatch" :> Struct({}, {"HeaderMatcher"},
        {})
 @@ "RateLimit_Action_MaskedRemoteAddress" :> Struct({}, {}, {})
 @@ "RateLimit_Action_MetaData" :> Struct({"MetadataKey"}, {}, {})
 @@ "RateLimit_Action_QueryParameterValueMatch" :> Struct({},
        {"QueryParameterMatcher"}, {})
 @@ "RateLimit_Action_QueryParameters" :> Struct({}, {}, {})
 @@ "RateLimit_Action_RequestHeaders" :> Struct({}, {}, {})
 @@ "RateLimit_HitsAddend" :> Struct({}, {}, {})

\* RateLimit_Override to RegexMatcher.
RdsTypes8 ==
    "RateLimit_Override" :> Struct({Raw}, {}, {})
 @@ "RateLimit_Override_DynamicMetadata" :> Struct({"MetadataKey"}, {}, {})
 @@ "RedirectAction" :> Struct({"RegexMatchAndSubstitute"}, {}, {})
 @@ "RegexMatchAndSubstitute" :> Struct({"RegexMatcher"}, {}, {})
 @@ "RegexMatcher" :> Struct({Raw}, {}, {})

\* RetryPolicy to RetryPolicy_ResetHeader.
RdsTypes9 ==
    "RetryPolicy" :> Struct({"RetryPolicy_RetryBackOff",
        "RetryPolicy_RetryPriority", Raw}, {"HeaderMatcher",
        "RetryPolicy_RetryHostPredicate", "TypedExtensionConfig"}, {})
 @@ "RetryPolicy_RateLimitedRetryBackOff" :> Struct({},
        {"RetryPolicy_ResetHeader"}, {})
 @@ "RetryPolicy_ResetHeader" :> Struct({}, {}, {})

\* RetryPolicy_RetryBackOff to RetryPolicy_RetryPriority.
RdsTypes10 ==
    "RetryPolicy_RetryBackOff" :> Struct({}, {}, {})
 @@ "RetryPolicy_RetryHostPredicate" :> Struct({Raw}, {}, {})
 @@ "RetryPolicy_RetryPriority" :> Struct({Raw}, {}, {})

\* Route.
RdsTypes11 ==
    "Route" :> Struct({"Decorator", "DirectResponseAction",
        "FilterAction", "Metadata", "RedirectAction", "Tracing", Raw},
        {"HeaderValueOption"}, {Raw})

\* RouteAction.
RdsTypes12 ==
    "RouteAction" :> Struct({"ClusterSpecifierPlugin", "CorsPolicy",
        "HedgePolicy", "InternalRedirectPolicy", "Metadata",
        "RegexMatchAndSubstitute", "RetryPolicy",
        "RouteAction_MaxStreamDuration", "TypedExtensionConfig",
        "WeightedCluster", Raw}, {"RateLimit", "RouteAction_HashPolicy",
        "RouteAction_RequestMirrorPolicy", Raw}, {})

\* RouteAction_HashPolicy to RouteAction_HashPolicy_QueryParameter.
RdsTypes13 ==
    "RouteAction_HashPolicy" :> Struct({Raw}, {}, {})
 @@ "RouteAction_HashPolicy_ConnectionProperties" :> Struct({}, {}, {})
 @@ "RouteAction_HashPolicy_Cookie" :> Struct({},
        {"RouteAction_HashPolicy_CookieAttribute"}, {})
 @@ "RouteAction_HashPolicy_CookieAttribute" :> Struct({}, {}, {})
 @@ "RouteAction_HashPolicy_FilterState" :> Struct({}, {}, {})
 @@ "RouteAction_HashPolicy_Header" :> Struct({"RegexMatchAndSubstitute"},
        {}, {})
 @@ "RouteAction_HashPolicy_QueryParameter" :> Struct({}, {}, {})

\* RouteAction_MaxStreamDuration to RouteAction_UpgradeConfig_ConnectConfig.
RdsTypes14 ==
    "RouteAction_MaxStreamDuration" :> Struct({}, {}, {})
 @@ "RouteAction_RequestMirrorPolicy" :> Struct({"RuntimeFractionalPercent"}, {"HeaderMutation"}, {})
 @@ "RouteAction_UpgradeConfig" :> Struct({"RouteAction_UpgradeConfig_ConnectConfig"}, {}, {})
 @@ "RouteAction_UpgradeConfig_ConnectConfig" :> Struct({"ProxyProtocolConfig"}, {}, {})

\* RouteMatch to RuntimeFractionalPercent.
RdsTypes15 ==
    "RouteMatch" :> Struct({"RegexMatcher",
        "RouteMatch_TlsContextMatchOptions", "RuntimeFractionalPercent",
        "TypedExtensionConfig", Raw}, {"FilterStateMatcher", "HeaderMatcher",
        "MetadataMatcher", "QueryParameterMatcher"}, {})
 @@ "RouteMatch_TlsContextMatchOptions" :> Struct({}, {}, {})
 @@ "RuntimeFractionalPercent" :> Struct({"FractionalPercent"}, {}, {})

\* StringMatcher to TypedExtensionConfig.
RdsTypes16 ==
    "StringMatcher" :> Struct({"RegexMatcher", "TypedExtensionConfig"}, {},
        {})
 @@ "SubstitutionFormatString" :> Struct({"JsonFormatOptions"},
        {"TypedExtensionConfig"}, {})
 @@ "TlvEntry" :> Struct({"SubstitutionFormatString"}, {}, {})
 @@ "Tracing" :> Struct({"FractionalPercent"}, {"CustomTag"}, {})
 @@ "TypedExtensionConfig" :> Struct({Raw}, {}, {})

\* ValueMatcher to VirtualCluster.
RdsTypes17 ==
    "ValueMatcher" :> Struct({"DoubleMatcher", "StringMatcher", Raw}, {},
        {})
 @@ "Vhds" :> Struct({"ConfigSource"}, {}, {})
 @@ "VirtualCluster" :> Struct({}, {"HeaderMatcher"}, {})

\* VirtualHost.
RdsTypes18 ==
    "VirtualHost" :> Struct({"CorsPolicy", "HedgePolicy", "Metadata",
        "RetryPolicy", Raw}, {"HeaderValueOption", "RateLimit", "Route",
        "RouteAction_RequestMirrorPolicy", "VirtualCluster"}, {Raw})

\* WatchedDirectory to WeightedCluster_ClusterWeight.
RdsTypes19 ==
    "WatchedDirectory" :> Struct({}, {}, {})
 @@ "WeightedCluster" :> Struct({}, {"WeightedCluster_ClusterWeight"}, {})
 @@ "WeightedCluster_ClusterWeight" :> Struct({"Metadata"},
        {"HeaderValueOption"}, {Raw})

\* All of them.
RdsTypesAll ==
    RdsTypes1 @@ RdsTypes2 @@ RdsTypes3 @@ RdsTypes4 @@ RdsTypes5 @@ RdsTypes6
        @@ RdsTypes7 @@ RdsTypes8 @@ RdsTypes9 @@ RdsTypes10 @@ RdsTypes11 @@
        RdsTypes12 @@ RdsTypes13 @@ RdsTypes14 @@ RdsTypes15 @@ RdsTypes16 @@
        RdsTypes17 @@ RdsTypes18 @@ RdsTypes19
=============================================================================
