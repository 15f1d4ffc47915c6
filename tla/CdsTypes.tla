------------------------------ MODULE CdsTypes ------------------------------
(* The structs of pkg/xds/types/cds, in the order of the file: the part of  *)
(* the Cluster resource generated from the Envoy messages.  TypeGraph says  *)
(* how a row is read.                                                       *)
EXTENDS TypeGraph, TLC

\* CDS.
CdsTypes1 ==
    "CDS" :> Struct({"BindConfig", "CircuitBreakers",
        "ClusterLoadAssignment", "Cluster_CommonLbConfig",
        "Cluster_EdsClusterConfig", "Cluster_LbSubsetConfig",
        "Cluster_PreconnectPolicy", "Cluster_RefreshRate", "ConfigSource",
        "DnsResolutionConfig", "Http1ProtocolOptions", "Http2ProtocolOptions",
        "HttpProtocolOptions", "LoadBalancingPolicy", "Metadata",
        "OutlierDetection", "TrackClusterStats", "TransportSocket",
        "TypedExtensionConfig", "UpstreamConnectionOptions",
        "UpstreamHttpProtocolOptions", Raw}, {"Address",
        "Cluster_TransportSocketMatch", "Filter", "HealthCheck"}, {Raw})

\* Address to BackoffStrategy.
CdsTypes2 ==
    "Address" :> Struct({"EnvoyInternalAddress", "Pipe", "SocketAddress"},
        {}, {})
 @@ "ApiConfigSource" :> Struct({"RateLimitSettings"}, {"GrpcService",
        "TypedExtensionConfig"}, {})
 @@ "BackoffStrategy" :> Struct({}, {}, {})

\* BindConfig to CircuitBreakers.
CdsTypes3 ==
    "BindConfig" :> Struct({"SocketAddress", "TypedExtensionConfig"},
        {"ExtraSourceAddress", "SocketAddress", "SocketOption"}, {})
 @@ "BuildVersion" :> Struct({"SemanticVersion", Raw}, {}, {})
 @@ "CircuitBreakers" :> Struct({}, {Raw}, {})

\* CircuitBreakers_Thresholds to ClusterLoadAssignment_Policy.
CdsTypes4 ==
    "CircuitBreakers_Thresholds" :> Struct({"CircuitBreakers_Thresholds_RetryBudget"}, {}, {})
 @@ "CircuitBreakers_Thresholds_RetryBudget" :> Struct({"Percent"}, {}, {})
 @@ "ClusterLoadAssignment" :> Struct({Raw}, {"LocalityLbEndpoints"},
        {"Endpoint"})
 @@ "ClusterLoadAssignment_Policy" :> Struct({},
        {"ClusterLoadAssignment_Policy_DropOverload"}, {})

\* ClusterLoadAssignment_Policy_DropOverload to Cluster_EdsClusterConfig.
CdsTypes5 ==
    "ClusterLoadAssignment_Policy_DropOverload" :> Struct({"FractionalPercent"}, {}, {})
 @@ "Cluster_CommonLbConfig" :> Struct({"Cluster_CommonLbConfig_ConsistentHashingLbConfig",
        "HealthStatusSet", "Percent", Raw}, {}, {})
 @@ "Cluster_CommonLbConfig_ConsistentHashingLbConfig" :> Struct({}, {},
        {})
 @@ "Cluster_CommonLbConfig_ZoneAwareLbConfig" :> Struct({"Percent"}, {},
        {})
 @@ "Cluster_CustomClusterType" :> Struct({Raw}, {}, {})
 @@ "Cluster_EdsClusterConfig" :> Struct({"ConfigSource"}, {}, {})

\* Cluster_LbSubsetConfig to Cluster_PreconnectPolicy.
CdsTypes6 ==
    "Cluster_LbSubsetConfig" :> Struct({Raw},
        {"Cluster_LbSubsetConfig_LbSubsetSelector"}, {})
 @@ "Cluster_LbSubsetConfig_LbSubsetSelector" :> Struct({}, {}, {})
 @@ "Cluster_LeastRequestLbConfig" :> Struct({"Cluster_SlowStartConfig",
        "RuntimeDouble"}, {}, {})
 @@ "Cluster_MaglevLbConfig" :> Struct({}, {}, {})
 @@ "Cluster_OriginalDstLbConfig" :> Struct({"MetadataKey"}, {}, {})
 @@ "Cluster_PreconnectPolicy" :> Struct({}, {}, {})

\* Cluster_RefreshRate to ConfigSource.
CdsTypes7 ==
    "Cluster_RefreshRate" :> Struct({}, {}, {})
 @@ "Cluster_RingHashLbConfig" :> Struct({}, {}, {})
 @@ "Cluster_RoundRobinLbConfig" :> Struct({"Cluster_SlowStartConfig"}, {},
        {})
 @@ "Cluster_SlowStartConfig" :> Struct({"Percent", "RuntimeDouble"}, {},
        {})
 @@ "Cluster_TransportSocketMatch" :> Struct({"TransportSocket", Raw}, {},
        {})
 @@ "ConfigSource" :> Struct({"ApiConfigSource", "PathConfigSource",
        "SelfConfigSource", Raw}, {}, {})

\* DataSource to EnvoyInternalAddress.
CdsTypes8 ==
    "DataSource" :> Struct({"WatchedDirectory"}, {}, {})
 @@ "DnsResolutionConfig" :> Struct({"DnsResolverOptions"}, {"Address"},
        {})
 @@ "DnsResolverOptions" :> Struct({}, {}, {})
 @@ "Endpoint" :> Struct({"Address", "Endpoint_HealthCheckConfig"},
        {"Endpoint_AdditionalAddress"}, {})
 @@ "Endpoint_AdditionalAddress" :> Struct({"Address"}, {}, {})
 @@ "Endpoint_HealthCheckConfig" :> Struct({"Address"}, {}, {})
 @@ "EnvoyInternalAddress" :> Struct({}, {}, {})

\* EventServiceConfig to FractionalPercent.
CdsTypes9 ==
    "EventServiceConfig" :> Struct({Raw}, {}, {})
 @@ "ExtensionConfigSource" :> Struct({"ConfigSource", Raw}, {}, {})
 @@ "ExtraSourceAddress" :> Struct({"SocketAddress",
        "SocketOptionsOverride"}, {}, {})
 @@ "Filter" :> Struct({"ExtensionConfigSource", Raw}, {}, {})
 @@ "FractionalPercent" :> Struct({}, {}, {})

\* GrpcService to GrpcService_EnvoyGrpc.
CdsTypes10 ==
    "GrpcService" :> Struct({"RetryPolicy", Raw}, {"HeaderValue"}, {})
 @@ "GrpcService_EnvoyGrpc" :> Struct({"RetryPolicy"}, {}, {})

\* GrpcService_GoogleGrpc to GrpcService_GoogleGrpc_ChannelCredentials.
CdsTypes11 ==
    "GrpcService_GoogleGrpc" :> Struct({"GrpcService_GoogleGrpc_ChannelCredentials", Raw},
        {"GrpcService_GoogleGrpc_CallCredentials", Raw}, {})
 @@ "GrpcService_GoogleGrpc_CallCredentials" :> Struct({Raw}, {}, {})
 @@ "GrpcService_GoogleGrpc_ChannelArgs" :> Struct({}, {},
        {"GrpcService_GoogleGrpc_ChannelArgs_Value"})
 @@ "GrpcService_GoogleGrpc_ChannelArgs_Value" :> Struct({Raw}, {}, {})
 @@ "GrpcService_GoogleGrpc_ChannelCredentials" :> Struct({}, {}, {})

\* HeaderValue to HeaderValueOption.
CdsTypes12 ==
    "HeaderValue" :> Struct({}, {}, {})
 @@ "HeaderValueOption" :> Struct({"HeaderValue"}, {}, {})

\* HealthCheck.
CdsTypes13 ==
    "HealthCheck" :> Struct({"EventServiceConfig",
        "HealthCheck_TlsOptions", Raw}, {"TypedExtensionConfig"}, {})

\* HealthCheck_CustomHealthCheck to HealthCheck_Payload.
CdsTypes14 ==
    "HealthCheck_CustomHealthCheck" :> Struct({Raw}, {}, {})
 @@ "HealthCheck_GrpcHealthCheck" :> Struct({}, {"HeaderValueOption"}, {})
 @@ "HealthCheck_HttpHealthCheck" :> Struct({"HealthCheck_Payload",
        "StringMatcher"}, {"HeaderValueOption", "HealthCheck_Payload",
        "Int64Range"}, {})
 @@ "HealthCheck_Payload" :> Struct({}, {}, {})

\* HealthCheck_TcpHealthCheck to Http1ProtocolOptions_HeaderKeyFormat.
CdsTypes15 ==
    "HealthCheck_TcpHealthCheck" :> Struct({"HealthCheck_Payload",
        "ProxyProtocolConfig"}, {"HealthCheck_Payload"}, {})
 @@ "HealthCheck_TlsOptions" :> Struct({}, {}, {})
 @@ "HealthStatusSet" :> Struct({}, {}, {})
 @@ "Http1ProtocolOptions" :> Struct({"Http1ProtocolOptions_HeaderKeyFormat"}, {"StringMatcher"}, {})
 @@ "Http1ProtocolOptions_HeaderKeyFormat" :> Struct({"TypedExtensionConfig", Raw}, {}, {})

\* Http2ProtocolOptions to Http2ProtocolOptions_SettingsParameter.
CdsTypes16 ==
    "Http2ProtocolOptions" :> Struct({"KeepaliveSettings"},
        {"Http2ProtocolOptions_SettingsParameter"}, {})
 @@ "Http2ProtocolOptions_SettingsParameter" :> Struct({}, {}, {})

\* HttpProtocolOptions to LbEndpoint.
CdsTypes17 ==
    "HttpProtocolOptions" :> Struct({}, {}, {})
 @@ "HttpUri" :> Struct({}, {}, {})
 @@ "Int64Range" :> Struct({}, {}, {})
 @@ "JsonFormatOptions" :> Struct({}, {}, {})
 @@ "KeepaliveSettings" :> Struct({"Percent"}, {}, {})
 @@ "LbEndpoint" :> Struct({"Endpoint", "Metadata"}, {}, {})

\* LedsClusterLocalityConfig to LocalityLbEndpoints_LbEndpointList.
CdsTypes18 ==
    "LedsClusterLocalityConfig" :> Struct({"ConfigSource"}, {}, {})
 @@ "LoadBalancingPolicy" :> Struct({}, {"LoadBalancingPolicy_Policy"}, {})
 @@ "LoadBalancingPolicy_Policy" :> Struct({"TypedExtensionConfig"}, {},
        {})
 @@ "Locality" :> Struct({}, {}, {})
 @@ "LocalityLbEndpoints" :> Struct({"LedsClusterLocalityConfig",
        "Locality", "Metadata", Raw}, {"LbEndpoint"}, {})
 @@ "LocalityLbEndpoints_LbEndpointList" :> Struct({}, {"LbEndpoint"}, {})

\* Metadata to MetadataKey.
CdsTypes19 ==
    "Metadata" :> Struct({}, {}, {Raw})
 @@ "MetadataKey" :> Struct({}, {Raw}, {})

\* OutlierDetection.
CdsTypes20 ==
    "OutlierDetection" :> Struct({}, {"TypedExtensionConfig"}, {})

\* PathConfigSource to RemoteDataSource.
CdsTypes21 ==
    "PathConfigSource" :> Struct({"WatchedDirectory"}, {}, {})
 @@ "Percent" :> Struct({}, {}, {})
 @@ "Pipe" :> Struct({}, {}, {})
 @@ "ProxyProtocolConfig" :> Struct({"ProxyProtocolPassThroughTLVs"},
        {"TlvEntry"}, {})
 @@ "ProxyProtocolPassThroughTLVs" :> Struct({}, {}, {})
 @@ "RateLimitSettings" :> Struct({}, {}, {})
 @@ "RemoteDataSource" :> Struct({"HttpUri", "RetryPolicy"}, {}, {})

\* RetryPolicy to SocketOption.
CdsTypes22 ==
    "RetryPolicy" :> Struct({"BackoffStrategy",
        "RetryPolicy_RetryPriority"}, {"RetryPolicy_RetryHostPredicate"}, {})
 @@ "RetryPolicy_RetryHostPredicate" :> Struct({Raw}, {}, {})
 @@ "RetryPolicy_RetryPriority" :> Struct({Raw}, {}, {})
 @@ "RuntimeDouble" :> Struct({}, {}, {})
 @@ "SelfConfigSource" :> Struct({}, {}, {})
 @@ "SemanticVersion" :> Struct({}, {}, {})
 @@ "SocketAddress" :> Struct({}, {}, {})
 @@ "SocketOption" :> Struct({"SocketOption_SocketType"}, {}, {})

\* SocketOption_SocketType to TlvEntry.
CdsTypes23 ==
    "SocketOption_SocketType" :> Struct({Raw}, {}, {})
 @@ "SocketOptionsOverride" :> Struct({}, {"SocketOption"}, {})
 @@ "StringMatcher" :> Struct({"TypedExtensionConfig", Raw}, {}, {})
 @@ "SubstitutionFormatString" :> Struct({"JsonFormatOptions"},
        {"TypedExtensionConfig"}, {})
 @@ "TcpKeepalive" :> Struct({}, {}, {})
 @@ "TlvEntry" :> Struct({"SubstitutionFormatString"}, {}, {})

\* TrackClusterStats to WatchedDirectory.
CdsTypes24 ==
    "TrackClusterStats" :> Struct({}, {}, {})
 @@ "TransportSocket" :> Struct({Raw}, {}, {})
 @@ "TypedExtensionConfig" :> Struct({Raw}, {}, {})
 @@ "UpstreamConnectionOptions" :> Struct({"TcpKeepalive",
        "UpstreamConnectionOptions_HappyEyeballsConfig"}, {}, {})
 @@ "UpstreamConnectionOptions_HappyEyeballsConfig" :> Struct({}, {}, {})
 @@ "UpstreamHttpProtocolOptions" :> Struct({}, {}, {})
 @@ "WatchedDirectory" :> Struct({}, {}, {})

\* All of them.
CdsTypesAll ==
    CdsTypes1 @@ CdsTypes2 @@ CdsTypes3 @@ CdsTypes4 @@ CdsTypes5 @@ CdsTypes6
        @@ CdsTypes7 @@ CdsTypes8 @@ CdsTypes9 @@ CdsTypes10 @@ CdsTypes11 @@
        CdsTypes12 @@ CdsTypes13 @@ CdsTypes14 @@ CdsTypes15 @@ CdsTypes16 @@
        CdsTypes17 @@ CdsTypes18 @@ CdsTypes19 @@ CdsTypes20 @@ CdsTypes21 @@
        CdsTypes22 @@ CdsTypes23 @@ CdsTypes24
=============================================================================
