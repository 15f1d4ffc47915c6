------------------------------ MODULE HcmTypes ------------------------------
(* The structs of pkg/xds/types/hcm, in the order of the file: the part of  *)
(* the Route (HTTP connection manager) resource generated from the Envoy    *)
(* messages.  TypeGraph says how a row is read.                             *)
EXTENDS TypeGraph, TLC

\* HCM.
HcmTypes1 ==
    "HCM" :> Struct({"Http1ProtocolOptions", "Http2ProtocolOptions",
        "Http3ProtocolOptions", "HttpConnectionManager_HcmAccessLogOptions",
        "HttpConnectionManager_InternalAddressConfig",
        "HttpConnectionManager_PathNormalizationOptions",
        "HttpConnectionManager_ProxyStatusConfig",
        "HttpConnectionManager_SetCurrentClientCertDetails",
        "HttpConnectionManager_Tracing", "HttpProtocolOptions",
        "LocalReplyConfig", "Rds", "RequestIDExtension",
        "SchemeHeaderTransformation", "ScopedRoutes", "TypedExtensionConfig",
        Raw}, {"AccessLog", "HttpConnectionManager_UpgradeConfig",
        "HttpFilter", "TypedExtensionConfig"}, {})

\* AccessLog to AndFilter.
HcmTypes2 ==
    "AccessLog" :> Struct({"AccessLogFilter", Raw}, {}, {})
 @@ "AccessLogFilter" :> Struct({"DurationFilter", "ExtensionFilter",
        "GrpcStatusFilter", "HeaderFilter", "LogTypeFilter", "MetadataFilter",
        "ResponseFlagFilter", "RuntimeFilter", "StatusCodeFilter", Raw}, {},
        {})
 @@ "AndFilter" :> Struct({}, {"AccessLogFilter"}, {})

\* ApiConfigSource to ConfigSource.
HcmTypes3 ==
    "ApiConfigSource" :> Struct({"RateLimitSettings"}, {"GrpcService",
        "TypedExtensionConfig"}, {})
 @@ "CidrRange" :> Struct({}, {}, {})
 @@ "ClusterSpecifierPlugin" :> Struct({"TypedExtensionConfig"}, {}, {})
 @@ "ComparisonFilter" :> Struct({"RuntimeUInt32"}, {}, {})
 @@ "ConfigSource" :> Struct({"ApiConfigSource", "PathConfigSource",
        "SelfConfigSource", Raw}, {}, {})

\* CorsPolicy to EnvoyInternalAddress.
HcmTypes4 ==
    "CorsPolicy" :> Struct({"RuntimeFractionalPercent"},
        {"StringMatcher"}, {})
 @@ "CustomTag" :> Struct({}, {}, {})
 @@ "DataSource" :> Struct({"WatchedDirectory"}, {}, {})
 @@ "Decorator" :> Struct({}, {}, {})
 @@ "DirectResponseAction" :> Struct({"DataSource"}, {}, {})
 @@ "DurationFilter" :> Struct({"ComparisonFilter"}, {}, {})
 @@ "EnvoyInternalAddress" :> Struct({}, {}, {})

\* ExtensionConfigSource to FractionalPercent.
HcmTypes5 ==
    "ExtensionConfigSource" :> Struct({"ConfigSource", Raw}, {}, {})
 @@ "ExtensionFilter" :> Struct({Raw}, {}, {})
 @@ "FilterAction" :> Struct({Raw}, {}, {})
 @@ "FilterStateMatcher" :> Struct({}, {}, {})
 @@ "FractionalPercent" :> Struct({}, {}, {})

\* GrpcService to GrpcService_EnvoyGrpc.
HcmTypes6 ==
    "GrpcService" :> Struct({"RetryPolicy", Raw}, {"HeaderValue"}, {})
 @@ "GrpcService_EnvoyGrpc" :> Struct({"RetryPolicy"}, {}, {})

\* GrpcService_GoogleGrpc to GrpcStatusFilter.
HcmTypes7 ==
    "GrpcService_GoogleGrpc" :> Struct({"GrpcService_GoogleGrpc_ChannelCredentials", Raw}, {Raw}, {})
 @@ "GrpcService_GoogleGrpc_ChannelArgs" :> Struct({}, {},
        {"GrpcService_GoogleGrpc_ChannelArgs_Value"})
 @@ "GrpcService_GoogleGrpc_ChannelArgs_Value" :> Struct({Raw}, {}, {})
 @@ "GrpcService_GoogleGrpc_ChannelCredentials" :> Struct({}, {}, {})
 @@ "GrpcStatusFilter" :> Struct({}, {}, {})

\* HeaderFilter to HedgePolicy.
HcmTypes8 ==
    "HeaderFilter" :> Struct({"HeaderMatcher"}, {}, {})
 @@ "HeaderMatcher" :> Struct({"Int64Range", "RegexMatcher",
        "StringMatcher"}, {}, {})
 @@ "HeaderValue" :> Struct({}, {}, {})
 @@ "HeaderValueOption" :> Struct({"HeaderValue"}, {}, {})
 @@ "HedgePolicy" :> Struct({"FractionalPercent"}, {}, {})

\* Http1ProtocolOptions to Http1ProtocolOptions_HeaderKeyFormat.
HcmTypes9 ==
    "Http1ProtocolOptions" :> Struct({"Http1ProtocolOptions_HeaderKeyFormat"}, {"StringMatcher"}, {})
 @@ "Http1ProtocolOptions_HeaderKeyFormat" :> Struct({"TypedExtensionConfig", Raw}, {}, {})

\* Http2ProtocolOptions to Http3ProtocolOptions.
HcmTypes10 ==
    "Http2ProtocolOptions" :> Struct({"KeepaliveSettings"},
        {"Http2ProtocolOptions_SettingsParameter"}, {})
 @@ "Http2ProtocolOptions_SettingsParameter" :> Struct({}, {}, {})
 @@ "Http3ProtocolOptions" :> Struct({"QuicProtocolOptions"}, {}, {})

\* HttpConnectionManager_HcmAccessLogOptions to HttpConnectionManager_Tracing.
HcmTypes11 ==
    "HttpConnectionManager_HcmAccessLogOptions" :> Struct({}, {}, {})
 @@ "HttpConnectionManager_InternalAddressConfig" :> Struct({},
        {"CidrRange"}, {})
 @@ "HttpConnectionManager_PathNormalizationOptions" :> Struct({"PathTransformation"}, {}, {})
 @@ "HttpConnectionManager_ProxyStatusConfig" :> Struct({}, {}, {})
 @@ "HttpConnectionManager_SetCurrentClientCertDetails" :> Struct({}, {},
        {})
 @@ "HttpConnectionManager_Tracing" :> Struct({"Percent", "Tracing_Http"},
        {"CustomTag"}, {})

\* HttpConnectionManager_UpgradeConfig to InternalRedirectPolicy.
HcmTypes12 ==
    "HttpConnectionManager_UpgradeConfig" :> Struct({}, {"HttpFilter"}, {})
 @@ "HttpFilter" :> Struct({"ExtensionConfigSource", Raw}, {}, {})
 @@ "HttpProtocolOptions" :> Struct({}, {}, {})
 @@ "Int64Range" :> Struct({}, {}, {})
 @@ "InternalRedirectPolicy" :> Struct({}, {"TypedExtensionConfig"}, {})

\* JsonFormatOptions to MetadataFilter.
HcmTypes13 ==
    "JsonFormatOptions" :> Struct({}, {}, {})
 @@ "KeepaliveSettings" :> Struct({"Percent"}, {}, {})
 @@ "LocalReplyConfig" :> Struct({"SubstitutionFormatString"},
        {"ResponseMapper"}, {})
 @@ "LogTypeFilter" :> Struct({}, {}, {})
 @@ "Metadata" :> Struct({}, {}, {Raw})
 @@ "MetadataFilter" :> Struct({"MetadataMatcher"}, {}, {})

\* MetadataMatcher to ProxyProtocolPassThroughTLVs.
HcmTypes14 ==
    "MetadataMatcher" :> Struct({"ValueMatcher"}, {Raw}, {})
 @@ "OrFilter" :> Struct({}, {"AccessLogFilter"}, {})
 @@ "PathConfigSource" :> Struct({"WatchedDirectory"}, {}, {})
 @@ "PathTransformation" :> Struct({}, {Raw}, {})
 @@ "Percent" :> Struct({}, {}, {})
 @@ "Pipe" :> Struct({}, {}, {})
 @@ "ProxyProtocolConfig" :> Struct({"ProxyProtocolPassThroughTLVs"},
        {"TlvEntry"}, {})
 @@ "ProxyProtocolPassThroughTLVs" :> Struct({}, {}, {})

\* QueryParameterMatcher to RateLimit.
HcmTypes15 ==
    "QueryParameterMatcher" :> Struct({"StringMatcher"}, {}, {})
 @@ "QuicKeepAliveSettings" :> Struct({}, {}, {})
 @@ "QuicProtocolOptions" :> Struct({"QuicKeepAliveSettings"}, {}, {})
 @@ "RateLimit" :> Struct({"RateLimit_HitsAddend", "RateLimit_Override"},
        {"RateLimit_Action"}, {})

\* RateLimitSettings to RateLimit_Override.
HcmTypes16 ==
    "RateLimitSettings" :> Struct({}, {}, {})
 @@ "RateLimit_Action" :> Struct({"TypedExtensionConfig", Raw}, {}, {})
 @@ "RateLimit_HitsAddend" :> Struct({}, {}, {})
 @@ "RateLimit_Override" :> Struct({Raw}, {}, {})

\* Rds to ResponseMapper.
HcmTypes17 ==
    "Rds" :> Struct({"ConfigSource"}, {}, {})
 @@ "RedirectAction" :> Struct({"RegexMatchAndSubstitute"}, {}, {})
 @@ "RegexMatchAndSubstitute" :> Struct({"RegexMatcher"}, {}, {})
 @@ "RegexMatcher" :> Struct({}, {}, {})
 @@ "RequestIDExtension" :> Struct({Raw}, {}, {})
 @@ "ResponseFlagFilter" :> Struct({}, {}, {})
 @@ "ResponseMapper" :> Struct({"AccessLogFilter", "DataSource",
        "SubstitutionFormatString"}, {"HeaderValueOption"}, {})

\* RetryPolicy to RetryPolicy_ResetHeader.
HcmTypes18 ==
    "RetryPolicy" :> Struct({"RetryPolicy_RetryBackOff",
        "RetryPolicy_RetryPriority", Raw}, {"HeaderMatcher",
        "RetryPolicy_RetryHostPredicate", "TypedExtensionConfig"}, {})
 @@ "RetryPolicy_RateLimitedRetryBackOff" :> Struct({},
        {"RetryPolicy_ResetHeader"}, {})
 @@ "RetryPolicy_ResetHeader" :> Struct({}, {}, {})

\* RetryPolicy_RetryBackOff to RetryPolicy_RetryPriority.
HcmTypes19 ==
    "RetryPolicy_RetryBackOff" :> Struct({}, {}, {})
 @@ "RetryPolicy_RetryHostPredicate" :> Struct({Raw}, {}, {})
 @@ "RetryPolicy_RetryPriority" :> Struct({Raw}, {}, {})

\* Route.
HcmTypes20 ==
    "Route" :> Struct({"Decorator", "DirectResponseAction",
        "FilterAction", "Metadata", "RedirectAction", "Tracing", Raw},
        {"HeaderValueOption"}, {Raw})

\* RouteAction.
HcmTypes21 ==
    "RouteAction" :> Struct({"ClusterSpecifierPlugin", "CorsPolicy",
        "HedgePolicy", "InternalRedirectPolicy", "Metadata",
        "RegexMatchAndSubstitute", "RetryPolicy",
        "RouteAction_MaxStreamDuration", "TypedExtensionConfig",
        "WeightedCluster", Raw}, {"RateLimit", "RouteAction_HashPolicy",
        "RouteAction_RequestMirrorPolicy", Raw}, {})

\* RouteAction_HashPolicy to RouteAction_UpgradeConfig_ConnectConfig.
HcmTypes22 ==
    "RouteAction_HashPolicy" :> Struct({Raw}, {}, {})
 @@ "RouteAction_MaxStreamDuration" :> Struct({}, {}, {})
 @@ "RouteAction_RequestMirrorPolicy" :> Struct({"RuntimeFractionalPercent"}, {Raw}, {})
 @@ "RouteAction_UpgradeConfig" :> Struct({"RouteAction_UpgradeConfig_ConnectConfig"}, {}, {})
 @@ "RouteAction_UpgradeConfig_ConnectConfig" :> Struct({"ProxyProtocolConfig"}, {}, {})

\* RouteConfiguration.
HcmTypes23 ==
    "RouteConfiguration" :> Struct({"Metadata", "Vhds"},
        {"ClusterSpecifierPlugin", "HeaderValueOption",
        "RouteAction_RequestMirrorPolicy", "VirtualHost"}, {Raw})

\* RouteMatch to RuntimeFilter.
HcmTypes24 ==
    "RouteMatch" :> Struct({"RegexMatcher",
        "RouteMatch_TlsContextMatchOptions", "RuntimeFractionalPercent",
        "TypedExtensionConfig", Raw}, {"FilterStateMatcher", "HeaderMatcher",
        "MetadataMatcher", "QueryParameterMatcher"}, {})
 @@ "RouteMatch_TlsContextMatchOptions" :> Struct({}, {}, {})
 @@ "RuntimeFilter" :> Struct({"FractionalPercent"}, {}, {})

\* RuntimeFractionalPercent to ScopedRouteConfigurationsList.
HcmTypes25 ==
    "RuntimeFractionalPercent" :> Struct({"FractionalPercent"}, {}, {})
 @@ "RuntimeUInt32" :> Struct({}, {}, {})
 @@ "SchemeHeaderTransformation" :> Struct({}, {}, {})
 @@ "ScopedRds" :> Struct({"ConfigSource"}, {}, {})
 @@ "ScopedRouteConfiguration" :> Struct({"RouteConfiguration",
        "ScopedRouteConfiguration_Key"}, {}, {})
 @@ "ScopedRouteConfiguration_Key" :> Struct({}, {Raw}, {})
 @@ "ScopedRouteConfigurationsList" :> Struct({},
        {"ScopedRouteConfiguration"}, {})

\* ScopedRoutes to StringMatcher.
HcmTypes26 ==
    "ScopedRoutes" :> Struct({"ConfigSource", "ScopedRds",
        "ScopedRouteConfigurationsList", Raw}, {}, {})
 @@ "ScopedRoutes_ScopeKeyBuilder" :> Struct({},
        {"ScopedRoutes_ScopeKeyBuilder_FragmentBuilder"}, {})
 @@ "ScopedRoutes_ScopeKeyBuilder_FragmentBuilder" :> Struct({Raw}, {}, {})
 @@ "ScopedRoutes_ScopeKeyBuilder_FragmentBuilder_HeaderValueExtractor" :>
        Struct({}, {}, {})
 @@ "SelfConfigSource" :> Struct({}, {}, {})
 @@ "SocketAddress" :> Struct({}, {}, {})
 @@ "StatusCodeFilter" :> Struct({"ComparisonFilter"}, {}, {})
 @@ "StringMatcher" :> Struct({Raw}, {}, {})

\* SubstitutionFormatString to ValueMatcher.
HcmTypes27 ==
    "SubstitutionFormatString" :> Struct({"JsonFormatOptions"},
        {"TypedExtensionConfig"}, {})
 @@ "TlvEntry" :> Struct({"SubstitutionFormatString"}, {}, {})
 @@ "Tracing" :> Struct({"FractionalPercent"}, {"CustomTag"}, {})
 @@ "Tracing_Http" :> Struct({Raw}, {}, {})
 @@ "TypedExtensionConfig" :> Struct({Raw}, {}, {})
 @@ "ValueMatcher" :> Struct({Raw}, {}, {})

\* Vhds to VirtualCluster.
HcmTypes28 ==
    "Vhds" :> Struct({"ConfigSource"}, {}, {})
 @@ "VirtualCluster" :> Struct({}, {"HeaderMatcher"}, {})

\* VirtualHost.
HcmTypes29 ==
    "VirtualHost" :> Struct({"CorsPolicy", "HedgePolicy", "Metadata",
        "RetryPolicy", Raw}, {"HeaderValueOption", "RateLimit", "Route",
        "RouteAction_RequestMirrorPolicy", "VirtualCluster"}, {Raw})

\* WatchedDirectory to WeightedCluster_ClusterWeight.
HcmTypes30 ==
    "WatchedDirectory" :> Struct({}, {}, {})
 @@ "WeightedCluster" :> Struct({}, {"WeightedCluster_ClusterWeight"}, {})
 @@ "WeightedCluster_ClusterWeight" :> Struct({"Metadata"},
        {"HeaderValueOption"}, {Raw})

\* All of them.
HcmTypesAll ==
    HcmTypes1 @@ HcmTypes2 @@ HcmTypes3 @@ HcmTypes4 @@ HcmTypes5 @@ HcmTypes6
        @@ HcmTypes7 @@ HcmTypes8 @@ HcmTypes9 @@ HcmTypes10 @@ HcmTypes11 @@
        HcmTypes12 @@ HcmTypes13 @@ HcmTypes14 @@ HcmTypes15 @@ HcmTypes16 @@
        HcmTypes17 @@ HcmTypes18 @@ HcmTypes19 @@ HcmTypes20 @@ HcmTypes21 @@
        HcmTypes22 @@ HcmTypes23 @@ HcmTypes24 @@ HcmTypes25 @@ HcmTypes26 @@
        HcmTypes27 @@ HcmTypes28 @@ HcmTypes29 @@ HcmTypes30
=============================================================================
